---- MODULE Spec2Model ----
(***************************************************************************)
(* Thermostat Proxy (custom_components/thermostat_proxy): the state        *)
(* reconciliation engine of the virtual thermostat.                        *)
(*                                                                         *)
(* Units.  Temperatures are integers in hundredths of a degree (22.5       *)
(* degrees is 2250); times are integers in seconds of time.monotonic().    *)
(* An optional value is None (<<>>) or Some(v) (<<v>>).  Discrete values   *)
(* are strings; a member of the HVACMode enum is the string "HVACMode.X"   *)
(* and its raw value the string "x".                                       *)
(***************************************************************************)
EXTENDS Integers, Sequences, FiniteSets, TLC

VARIABLES
    entity,       \* the CustomThermostatEntity object: one field per attribute
    hass_state,   \* hass.states.get(real_entity_id): the device's live state
    now,          \* time.monotonic()
    callers,      \* caller-initiated service handlers in progress
    realigns,     \* realignment coroutines (_run) in progress
    corrections,  \* correction coroutines in progress
    budget,       \* how many further operations of each kind a run may start
    ev            \* observation: the last step taken and its outcome

vars == <<entity, hass_state, now, callers, realigns, corrections, budget, ev>>

-----------------------------------------------------------------------------
(* Optional values and arithmetic helpers *)

None == <<>>
Some(v) == <<v>>
Get(o) == o[1]
\* An attribute value float() cannot parse, or NaN.
Unparsable == <<"nan", "nan">>

Abs(x) == IF x < 0 THEN 0 - x ELSE x
Max(a, b) == IF a >= b THEN a ELSE b
Min(a, b) == IF a <= b THEN a ELSE b

\* Python's round(n / d): the nearest integer, ties to the even one (d > 0).
RoundHalfEven(n, d) ==
    LET q == n \div d
        r == n % d
    IN  IF 2 * r < d THEN q
        ELSE IF 2 * r > d THEN q + 1
        ELSE IF q % 2 = 0 THEN q ELSE q + 1

\* math.isclose(a, b, abs_tol=tol): within the absolute tolerance or within the
\* default relative tolerance 1e-09 of the larger magnitude.
IsClose(a, b, tol) == Abs(a - b) <= Max(tol, Max(Abs(a), Abs(b)) \div 1000000000)

\* Python's `a or b` on optional floats: None and 0.0 are both falsy.
OrElse(a, b) == IF a = None \/ Get(a) = 0 THEN b ELSE a

-----------------------------------------------------------------------------
(* climate_model.py: constants and the TrackableSetting registry *)

DEFAULT_PRECISION == 10
PENDING_REQUEST_TOLERANCE_MIN == 5
PENDING_REQUEST_TOLERANCE_MAX == 50
MAX_TRACKED_REAL_TARGET_REQUESTS == 5
PENDING_REQUEST_TIMEOUT == 30

\* Defaults the ClimateEntity base class supplies through super().
HA_DEFAULT_MIN_TEMP == 700
HA_DEFAULT_MAX_TEMP == 3500
HA_DEFAULT_PRECISION == 10

\* Imported from const.py (climate_entity.py lines 76-77): the overdrive offset
\* per direction, taken as one degree.
OVERDRIVE_ADJUSTMENT_HEAT == 100
OVERDRIVE_ADJUSTMENT_COOL == -100

STATE_UNAVAILABLE == "unavailable"
STATE_UNKNOWN == "unknown"

\* The members in definition order (Enum iteration order).
TrackableSettingSeq ==
    << "hvac_mode", "temperature", "fan_mode", "swing_mode", "target_temp_high",
       "target_temp_low", "target_humidity", "swing_horizontal_mode" >>

TrackableSetting == { TrackableSettingSeq[i] : i \in DOMAIN TrackableSettingSeq }

IsState(s) == s = "hvac_mode"

IsNumeric(s) ==
    s \in {"temperature", "target_temp_high", "target_temp_low", "target_humidity"}

StateKey(s) == IF s = "target_humidity" THEN "humidity" ELSE s

CorrectionGroup(s) ==
    IF s \in {"target_temp_high", "target_temp_low"} THEN Some("temp_range") ELSE None

FeatureFlag(s) ==
    CASE s = "fan_mode" -> Some("FAN_MODE")
      [] s = "swing_mode" -> Some("SWING_MODE")
      [] s \in {"target_temp_high", "target_temp_low"} -> Some("TARGET_TEMPERATURE_RANGE")
      [] s = "target_humidity" -> Some("TARGET_HUMIDITY")
      [] s = "swing_horizontal_mode" -> Some("SWING_HORIZONTAL_MODE")
      [] OTHER -> None

SSOT_EXPORTABLE_SETTINGS == TrackableSetting \ {"temperature"}

CORRECTION_GROUPS(g) == { s \in TrackableSetting : CorrectionGroup(s) = Some(g) }

CORE_TRACKED_SETTINGS == {"hvac_mode", "temperature"}

\* HVACMode: the enum's members and their raw values.
HVACModeValue ==
    [ m \in {"HVACMode.OFF", "HVACMode.HEAT", "HVACMode.COOL", "HVACMode.HEAT_COOL",
             "HVACMode.AUTO", "HVACMode.DRY", "HVACMode.FAN_ONLY"} |->
        CASE m = "HVACMode.OFF" -> "off"
          [] m = "HVACMode.HEAT" -> "heat"
          [] m = "HVACMode.COOL" -> "cool"
          [] m = "HVACMode.HEAT_COOL" -> "heat_cool"
          [] m = "HVACMode.AUTO" -> "auto"
          [] m = "HVACMode.DRY" -> "dry"
          [] m = "HVACMode.FAN_ONLY" -> "fan_only" ]

\* The member of a raw value, or None where HVACMode(raw) raises ValueError.
HVACModeOfRaw(raw) ==
    CASE raw = "off" -> Some("HVACMode.OFF")
      [] raw = "heat" -> Some("HVACMode.HEAT")
      [] raw = "cool" -> Some("HVACMode.COOL")
      [] raw = "heat_cool" -> Some("HVACMode.HEAT_COOL")
      [] raw = "auto" -> Some("HVACMode.AUTO")
      [] raw = "dry" -> Some("HVACMode.DRY")
      [] raw = "fan_only" -> Some("HVACMode.FAN_ONLY")
      [] OTHER -> None

IsHVACMode(value) ==
    value \in {"HVACMode.OFF", "HVACMode.HEAT", "HVACMode.COOL", "HVACMode.HEAT_COOL",
               "HVACMode.AUTO", "HVACMode.DRY", "HVACMode.FAN_ONLY"}

\* TrackableSetting._normalize_discrete: an Enum member becomes its value.
NormalizeDiscrete(value) ==
    IF IsHVACMode(value) THEN HVACModeValue[value] ELSE value

\* HVACMode(mode): the member whose value (or which itself) is `mode`, or None
\* where the constructor raises ValueError.
ToHVACMode(mode) == IF IsHVACMode(mode) THEN Some(mode) ELSE HVACModeOfRaw(mode)

CoerceTemperature(raw) ==
    IF raw = None \/ raw = Unparsable THEN None ELSE raw

Positive(result) == IF result = None \/ Get(result) <= 0 THEN None ELSE result

CoercePositiveFloat(raw) == Positive(CoerceTemperature(raw))

\* TrackableSetting.read_from(state), for a State object `st`.
ReadFrom(s, st) ==
    IF IsState(s) THEN Some(st.state)
    ELSE LET raw == st.attributes[StateKey(s)]
         IN  IF IsNumeric(s) THEN CoerceTemperature(raw) ELSE raw

\* A faulty variant: a missing tolerance falls back to the lower bound.
ValuesMatchNarrowDefault(s, a, b, tolerance) ==
    IF a = None \/ b = None THEN a = None /\ b = None
    ELSE IF IsNumeric(s)
         THEN IsClose(Get(a), Get(b),
                      IF tolerance # None THEN Get(tolerance)
                      ELSE PENDING_REQUEST_TOLERANCE_MIN)
         ELSE NormalizeDiscrete(Get(a)) = NormalizeDiscrete(Get(b))

\* TrackableSetting.values_match(a, b, tolerance): a, b and tolerance optional.
ValuesMatch(s, a, b, tolerance) ==
    IF a = None \/ b = None THEN a = None /\ b = None
    ELSE IF IsNumeric(s)
         THEN IsClose(Get(a), Get(b),
                      IF tolerance # None THEN Get(tolerance)
                      ELSE PENDING_REQUEST_TOLERANCE_MAX)
         ELSE NormalizeDiscrete(Get(a)) = NormalizeDiscrete(Get(b))

-----------------------------------------------------------------------------
(* climate_entity.py: readings, limits and the target translation engine.   *)
(* `e` is the entity object; every operator returns a value or the updated  *)
(* object.  The _entity_health diagnostics are not modelled.                *)

PhysicalSensorName == "Physical Entity"
SubstituteSensorName == "Sensor"

Available(st) == st.state \notin {STATE_UNAVAILABLE, STATE_UNKNOWN}

GetRealCurrentTemperature(e) ==
    IF e.real_state = None THEN None
    ELSE IF ~Available(Get(e.real_state)) THEN None
    ELSE CoerceTemperature(Get(e.real_state).attributes.current_temperature)

GetRealTargetTemperature(e) ==
    IF e.real_state = None THEN None
    ELSE CoerceTemperature(Get(e.real_state).attributes.temperature)

\* The one substitute sensor's state is None when it is missing, unavailable
\* or unknown, and otherwise the raw reading.
GetActiveSensorTemperature(e) ==
    IF e.selected_sensor_name = PhysicalSensorName
    THEN GetRealCurrentTemperature(e)
    ELSE CoerceTemperature(e.sensor_state)

SingleSourceOfTruth(e) == e.ssot_settings # {}

IgnoreThermostat(e) == e.it_settings # {}

MinTempProp(e) ==
    IF e.user_min_temp # None THEN Get(e.user_min_temp)
    ELSE IF e.min_temp # None THEN Get(e.min_temp)
    ELSE HA_DEFAULT_MIN_TEMP

MaxTempProp(e) ==
    IF e.user_max_temp # None THEN Get(e.user_max_temp)
    ELSE IF e.max_temp # None THEN Get(e.max_temp)
    ELSE HA_DEFAULT_MAX_TEMP

\* super().target_temperature_step is None.
TargetTemperatureStep(e) ==
    IF e.target_temp_step # None THEN e.target_temp_step
    ELSE e.precision_override

Precision(e) ==
    IF e.precision_override # None THEN Get(e.precision_override)
    ELSE IF e.target_temp_step # None THEN Get(e.target_temp_step)
    ELSE HA_DEFAULT_PRECISION

CurrentTemperature(e) ==
    OrElse(GetActiveSensorTemperature(e), GetRealCurrentTemperature(e))

GetSsotBaseline(e, s) ==
    IF s = "temperature" THEN e.last_real_target_temp ELSE e.ssot_baselines[s]

GetItOrReal(e, s) ==
    IF s \in e.it_settings /\ GetSsotBaseline(e, s) # None
    THEN GetSsotBaseline(e, s)
    ELSE IF e.real_state = None THEN None
    ELSE ReadFrom(s, Get(e.real_state))

\* The hvac_mode property: an HVACMode member, or None.
OptToHVACMode(raw) == IF raw = None THEN None ELSE ToHVACMode(Get(raw))

HvacModeProp(e) == OptToHVACMode(GetItOrReal(e, "hvac_mode"))

\* round(value, decimals) with decimals = max(1, min(3, round(-log10(precision)))):
\* one decimal for a precision above 0.0316, else hundredths or finer.
RoundDecimals(value, precision) ==
    IF precision >= 4 THEN RoundHalfEven(value, 10) * 10 ELSE value

\* _round_temperature's rounding, for the precision `self.precision or
\* DEFAULT_PRECISION`.
RoundToPrecision(value, precision) ==
    IF precision >= 100 THEN RoundHalfEven(value, 100) * 100
    ELSE IF IsClose(precision, 50, 1) THEN RoundHalfEven(2 * value, 100) * 50
    ELSE RoundDecimals(value, precision)

\* `a or b` for a float a.
FloatOr(a, b) == IF a = 0 THEN b ELSE a

RoundTemperature(e, value) ==
    RoundToPrecision(value, FloatOr(Precision(e), DEFAULT_PRECISION))

Clamp(value, lo, hi) == Min(Max(value, lo), hi)

\* `round(value / step) * step` when a step is known.
StepRound(value, step) ==
    IF step # None /\ Get(step) > 0
    THEN RoundHalfEven(value, Get(step)) * Get(step)
    ELSE value

ApplyTargetConstraints(e, value) ==
    IF value = None THEN None
    ELSE Some(RoundTemperature(e,
            Clamp(StepRound(Clamp(Get(value), MinTempProp(e), MaxTempProp(e)),
                            TargetTemperatureStep(e)),
                  MinTempProp(e), MaxTempProp(e))))

EffectiveMin(e) == IF e.user_min_temp # None THEN e.user_min_temp ELSE e.min_temp

EffectiveMax(e) == IF e.user_max_temp # None THEN e.user_max_temp ELSE e.max_temp

SafetyClamp(target, effective_min, effective_max) ==
    IF effective_min # None /\ effective_max # None
       /\ Get(effective_min) > Get(effective_max)
    THEN effective_max
    ELSE IF effective_min # None /\ Get(target) < Get(effective_min) THEN effective_min
    ELSE IF effective_max # None /\ Get(target) > Get(effective_max) THEN effective_max
    ELSE target

ApplySafetyClamp(e, calculated_target) ==
    IF calculated_target = None THEN None
    ELSE SafetyClamp(calculated_target, EffectiveMin(e), EffectiveMax(e))

\* _compute_delta_target after the safety clamp.
DeltaResult(e, constrained, display_current, real_current, clamped) ==
    IF clamped = None THEN None
    ELSE Some([ constrained |-> constrained,
                real_target |-> Get(ApplyTargetConstraints(e, clamped)),
                display_current |-> Get(display_current),
                real_current |-> Get(real_current) ])

\* A faulty variant: the offset between sensor and device is left out.
DeltaTargetWithoutOffset(e, constrained, display_current, real_current) ==
    IF display_current = None \/ real_current = None THEN None
    ELSE DeltaResult(e, constrained, display_current, real_current,
            ApplySafetyClamp(e, Some(constrained)))

\* ... after the readings were taken.
DeltaTarget(e, constrained, display_current, real_current) ==
    IF display_current = None \/ real_current = None THEN None
    ELSE DeltaResult(e, constrained, display_current, real_current,
            ApplySafetyClamp(e,
                Some(Get(real_current) + (constrained - Get(display_current)))))

\* _compute_delta_target(requested): None, or the tuple as a record.
ComputeDeltaTarget(e, requested) ==
    DeltaTarget(e, Get(ApplyTargetConstraints(e, Some(requested))),
                CurrentTemperature(e), GetRealCurrentTemperature(e))

PendingRequestTolerance(e) ==
    Max(PENDING_REQUEST_TOLERANCE_MIN,
        Min(PENDING_REQUEST_TOLERANCE_MAX,
            FloatOr(Precision(e), DEFAULT_PRECISION) \div 2))

-----------------------------------------------------------------------------
(* climate_entity.py: the pending write ledger.  An entry is (value, ts);   *)
(* `id` numbers the record calls so that an entry can be told from an       *)
(* equal one recorded by another call.                                      *)

\* A faulty variant: on overflow the newest entry is dropped.
CappedDroppingNewest(requests) ==
    IF Len(requests) > MAX_TRACKED_REAL_TARGET_REQUESTS
    THEN SubSeq(requests, 1, MAX_TRACKED_REAL_TARGET_REQUESTS) ELSE requests

\* The list cut to its newest MAX_TRACKED_REAL_TARGET_REQUESTS entries.
Capped(requests) ==
    IF Len(requests) > MAX_TRACKED_REAL_TARGET_REQUESTS THEN Tail(requests) ELSE requests

RecordSettingRequest(e, s, value, t, id) ==
    [e EXCEPT !.pending_setting_requests[s] =
        Capped(Append(@, [value |-> value, ts |-> t, id |-> id]))]

Unexpired(entry, t) == t - entry.ts < PENDING_REQUEST_TIMEOUT

CleanupPendingRequests(e, s, t) ==
    LET Keep(entry) == Unexpired(entry, t)
    IN  [e EXCEPT !.pending_setting_requests[s] = SelectSeq(@, Keep)]

AnyMatch(s, requests, value, tolerance) ==
    \E i \in DOMAIN requests : ValuesMatch(s, value, Some(requests[i].value), tolerance)

\* _has_pending_setting_request's answer; its purge is CleanupPendingRequests.
HasPendingSettingRequest(e, s, value, tolerance, t) ==
    AnyMatch(s, CleanupPendingRequests(e, s, t).pending_setting_requests[s],
             value, tolerance)

RemoveAt(seq, i) == SubSeq(seq, 1, i - 1) \o SubSeq(seq, i + 1, Len(seq))

Lowest(hits) == IF hits = {} THEN 0 ELSE CHOOSE i \in hits : \A j \in hits : i <= j

Highest(hits) == IF hits = {} THEN 0 ELSE CHOOSE i \in hits : \A j \in hits : j <= i

Matches(s, requests, value, tolerance) ==
    { i \in DOMAIN requests : ValuesMatch(s, value, Some(requests[i].value), tolerance) }

\* A faulty variant: the last matching entry instead of the first.
LastMatch(s, requests, value, tolerance) == Highest(Matches(s, requests, value, tolerance))

\* The index of the first entry matching `value`, or 0.
FirstMatch(s, requests, value, tolerance) == Lowest(Matches(s, requests, value, tolerance))

\* The object without the entry at index i of s's list (i = 0: as it is).
WithoutEntry(e, s, i) ==
    IF i = 0 THEN e ELSE [e EXCEPT !.pending_setting_requests[s] = RemoveAt(@, i)]

RemoveFirstMatch(e, s, value, tolerance) ==
    WithoutEntry(e, s, FirstMatch(s, e.pending_setting_requests[s], value, tolerance))

\* _consume_pending_setting_request: the updated object; it returns whether
\* HasPendingSettingRequest held.
ConsumePendingSettingRequest(e, s, value, tolerance, t) ==
    RemoveFirstMatch(CleanupPendingRequests(e, s, t), s, value, tolerance)

RemovePendingSettingRequest(e, s, value) ==
    RemoveFirstMatch(e, s, Some(value),
                     IF IsNumeric(s) THEN Some(PendingRequestTolerance(e)) ELSE None)

-----------------------------------------------------------------------------
(* climate_entity.py: the canonical baseline store *)

RememberMember(e, hvac_mode) ==
    IF hvac_mode = None THEN e
    ELSE IF Get(hvac_mode) # "HVACMode.OFF"
         THEN [e EXCEPT !.last_non_off_hvac_mode = hvac_mode]
         ELSE e

RememberNonOffHvacMode(e, mode) ==
    IF mode = None THEN e ELSE RememberMember(e, ToHVACMode(Get(mode)))

SetSsotBaseline(e, s, value) ==
    IF s = "temperature" THEN [e EXCEPT !.last_real_target_temp = Some(value)]
    ELSE IF s = "hvac_mode"
         THEN RememberNonOffHvacMode([e EXCEPT !.ssot_baselines[s] = Some(value)],
                                     Some(value))
         ELSE [e EXCEPT !.ssot_baselines[s] = Some(value)]

\* The baseline of every setting (None: there is none).
Baselines(e) == [s \in TrackableSetting |-> GetSsotBaseline(e, s)]

\* `not self._ssot_baselines`: the dict holds no key.
NoSsotBaselines(e) == \A s \in DOMAIN e.ssot_baselines : e.ssot_baselines[s] = None

Seeded(old, new) == IF new # None THEN new ELSE old

\* A faulty variant: the target is seeded like every other setting.
SeedReplacingTarget(e, st) ==
    [e EXCEPT
        !.last_real_target_temp = Seeded(@, CoerceTemperature(st.attributes.temperature)),
        !.ssot_baselines = [s \in DOMAIN @ |-> Seeded(@[s], ReadFrom(s, st))]]

SeedSsotBaselines(e, st) ==
    [e EXCEPT
        !.last_real_target_temp =
            IF @ = None THEN Seeded(@, CoerceTemperature(st.attributes.temperature))
            ELSE @,
        !.ssot_baselines = [s \in DOMAIN @ |-> Seeded(@[s], ReadFrom(s, st))]]

-----------------------------------------------------------------------------
(* climate_entity.py: the optimistic write transaction.  An update list is  *)
(* a sequence of <<setting, value>>.                                        *)

RECURSIVE ApplyCanonical(_, _)
ApplyCanonical(e, updates) ==
    IF updates = <<>> THEN e
    ELSE ApplyCanonical(SetSsotBaseline(e, Head(updates)[1], Head(updates)[2]),
                        Tail(updates))

RECURSIVE RecordAll(_, _, _, _)
RecordAll(e, updates, t, id) ==
    IF updates = <<>> THEN e
    ELSE RecordAll(RecordSettingRequest(e, Head(updates)[1], Head(updates)[2], t, id),
                   Tail(updates), t, id - 1)

RECURSIVE RemoveAll(_, _)
RemoveAll(e, updates) ==
    IF updates = <<>> THEN e
    ELSE RemoveAll(RemovePendingSettingRequest(e, Head(updates)[1], Head(updates)[2]),
                   Tail(updates))

UpdatedSettings(updates) == { updates[i][1] : i \in DOMAIN updates }

\* The rollback snapshot _begin_write_transaction returns.
WriteSnapshot(e, canonical_updates) ==
    [ last_real_target_temp |-> e.last_real_target_temp,
      last_real_write_time |-> e.last_real_write_time,
      suppress_sync_logs_until |-> e.suppress_sync_logs_until,
      ssot_baselines |->
          [s \in UpdatedSettings(canonical_updates) |-> GetSsotBaseline(e, s)] ]

SUPPRESSION_WINDOW == 5

StartAutoSyncLogSuppression(e, t) ==
    [e EXCEPT !.suppress_sync_logs_until = Some(t + SUPPRESSION_WINDOW)]

\* _begin_write_transaction after the baselines and the ledger were updated.
MarkWrite(e, optimistic_real_target, t) ==
    [e EXCEPT
        !.last_real_target_temp =
            IF optimistic_real_target # None THEN optimistic_real_target ELSE @,
        !.last_real_write_time = t]

Suppressing(e, suppress_auto_sync, t) ==
    IF suppress_auto_sync THEN StartAutoSyncLogSuppression(e, t) ELSE e

\* The object after _begin_write_transaction.
BeginWriteTransaction(e, pending_updates, canonical_updates, optimistic_real_target, suppress_auto_sync, t, id) ==
    Suppressing(
        MarkWrite(RecordAll(ApplyCanonical(e, canonical_updates), pending_updates, t, id),
                  optimistic_real_target, t),
        suppress_auto_sync, t)

RollbackWriteTransaction(e, snapshot, pending_updates) ==
    RemoveAll([e EXCEPT
                  !.last_real_target_temp =
                      IF "temperature" \in DOMAIN snapshot.ssot_baselines
                      THEN snapshot.ssot_baselines["temperature"]
                      ELSE snapshot.last_real_target_temp,
                  !.last_real_write_time = snapshot.last_real_write_time,
                  !.suppress_sync_logs_until = snapshot.suppress_sync_logs_until,
                  !.ssot_baselines =
                      [s \in DOMAIN @ |->
                          IF s \in DOMAIN snapshot.ssot_baselines
                          THEN snapshot.ssot_baselines[s] ELSE @[s]]],
              pending_updates)

-----------------------------------------------------------------------------
(* climate_entity.py: limits, capabilities and the published state *)

Supported(s, supported_features) ==
    FeatureFlag(s) # None /\ Get(FeatureFlag(s)) \in supported_features

LimitsFrom(e, a, step, real_precision) ==
    [e EXCEPT
        !.min_temp = CoerceTemperature(a.min_temp),
        !.max_temp = CoerceTemperature(a.max_temp),
        !.target_temp_step = step,
        !.precision_override = IF real_precision # None THEN real_precision ELSE step,
        !.active_tracked_settings =
            CORE_TRACKED_SETTINGS \cup
            { s \in TrackableSetting : Supported(s, a.supported_features) }]

\* _update_real_temperature_limits: limits, step, precision and the active
\* tracked settings, from the held device snapshot.
UpdateRealTemperatureLimits(e) ==
    IF e.real_state = None
    THEN [e EXCEPT !.min_temp = None, !.max_temp = None,
                   !.target_temp_step = None, !.precision_override = None]
    ELSE LimitsFrom(e, Get(e.real_state).attributes,
                    CoercePositiveFloat(Get(e.real_state).attributes.target_temp_step),
                    CoercePositiveFloat(Get(e.real_state).attributes.precision))

IsRangeModeActive(e) ==
    /\ e.real_state # None
    /\ "TARGET_TEMPERATURE_RANGE" \in Get(e.real_state).attributes.supported_features
    /\ HvacModeProp(e) = Some("HVACMode.HEAT_COOL")

RangeTargetsAvailable(e) ==
    /\ GetItOrReal(e, "target_temp_high") # None
    /\ GetItOrReal(e, "target_temp_low") # None

\* async_write_ha_state reads the target_temperature property, which fills a
\* missing virtual target.
WriteHaState(e) ==
    IF IsRangeModeActive(e) /\ RangeTargetsAvailable(e) THEN e
    ELSE IF e.virtual_target_temperature # None THEN e
    ELSE [e EXCEPT !.virtual_target_temperature =
            ApplyTargetConstraints(e,
                OrElse(e.last_real_target_temp,
                   OrElse(GetRealTargetTemperature(e),
                      OrElse(GetActiveSensorTemperature(e),
                             GetRealCurrentTemperature(e)))))]

-----------------------------------------------------------------------------
(* climate_external.py: classification of a device-state notification *)

BaselineOr(baseline, s, previous_real_state) ==
    IF baseline = None /\ previous_real_state # None
    THEN ReadFrom(s, Get(previous_real_state))
    ELSE baseline

Canonical(e, s, previous_real_state) ==
    BaselineOr(GetSsotBaseline(e, s), s, previous_real_state)

Differs(s, incoming, canonical) ==
    incoming # None /\ canonical # None /\ ~ValuesMatch(s, incoming, canonical, None)

\* A faulty variant: any difference from the canonical value is a change.
CollectCanonicalChangesExactly(e, new_state, previous_real_state) ==
    { s \in e.active_tracked_settings :
        /\ ReadFrom(s, new_state) # None
        /\ Canonical(e, s, previous_real_state) # None
        /\ ReadFrom(s, new_state) # Canonical(e, s, previous_real_state) }

\* _collect_canonical_changes: the settings of the (setting, canonical, incoming)
\* list; canonical and incoming are Canonical and ReadFrom of each.
CollectCanonicalChanges(e, new_state, previous_real_state) ==
    { s \in e.active_tracked_settings :
        Differs(s, ReadFrom(s, new_state), Canonical(e, s, previous_real_state)) }

\* Two faulty variants of the policy: one without the ignore-device rule, one
\* rejecting a single SSOT change.
RejectCompoundOnly(e, changes) ==
    /\ SingleSourceOfTruth(e)
    /\ Cardinality({ s \in changes : s \in e.ssot_settings }) > 1

RejectAnySsotChange(e, changes) ==
    \/ IgnoreThermostat(e)
    \/ /\ SingleSourceOfTruth(e)
       /\ Cardinality({ s \in changes : s \in e.ssot_settings }) >= 1

ShouldRejectExternalChange(e, changes) ==
    \/ IgnoreThermostat(e)
    \/ /\ SingleSourceOfTruth(e)
       /\ Cardinality({ s \in changes : s \in e.ssot_settings }) > 1

\* _find_pending_match_index, on the purged ledger: the latest match, or 0.
FindPendingMatchIndex(e, s, incoming, t) ==
    Highest(Matches(s, CleanupPendingRequests(e, s, t).pending_setting_requests[s],
                    incoming,
                    IF IsNumeric(s) THEN Some(PendingRequestTolerance(e)) ELSE None))

RECURSIVE CleanupAll(_, _, _)
CleanupAll(e, settings, t) ==
    IF settings = {} THEN e
    ELSE LET s == CHOOSE x \in settings : TRUE
         IN  CleanupAll(CleanupPendingRequests(e, s, t), settings \ {s}, t)

\* Whether _consume_echo_changes returns True.
IsEchoOfPending(e, changes, new_state, t) ==
    \A s \in changes : FindPendingMatchIndex(e, s, ReadFrom(s, new_state), t) # 0

\* A faulty variant: only the matched entry is deleted, not those before it.
ConsumeMatchOnly(c, s, idx, incoming) ==
    SetSsotBaseline([c EXCEPT !.pending_setting_requests[s] =
                        SubSeq(@, 1, idx - 1) \o SubSeq(@, idx + 1, Len(@))],
                    s, Get(incoming))

\* A faulty variant: the baseline moves, the matched entries stay pending.
ConsumeKeepingLedger(c, s, idx, incoming) == SetSsotBaseline(c, s, Get(incoming))

\* One setting of _consume_echo_changes' second loop, on the purged ledger.
ConsumeUpTo(c, s, idx, incoming) ==
    SetSsotBaseline([c EXCEPT !.pending_setting_requests[s] = SubSeq(@, idx + 1, Len(@))],
                    s, Get(incoming))

ConsumeOne(e, s, new_state, t) ==
    ConsumeUpTo(CleanupPendingRequests(e, s, t), s,
                FindPendingMatchIndex(e, s, ReadFrom(s, new_state), t),
                ReadFrom(s, new_state))

RECURSIVE ConsumeMatched(_, _, _, _)
ConsumeMatched(e, settings, new_state, t) ==
    IF settings = {} THEN e
    ELSE LET s == CHOOSE x \in settings : TRUE
         IN  ConsumeMatched(ConsumeOne(e, s, new_state, t), settings \ {s}, new_state, t)

\* _consume_echo_changes when every change matches: the object afterwards.
ConsumeEchoChanges(e, changes, new_state, t) ==
    ConsumeMatched(e, changes, new_state, t)

\* A faulty variant: the sensor selection is left as it was.
HandleExternalKeepingSensor(e, real_target) ==
    WriteHaState([e EXCEPT
        !.virtual_target_temperature = ApplyTargetConstraints(e, Some(real_target))])

HandleExternalRealTargetChange(e, real_target) ==
    WriteHaState([e EXCEPT
        !.virtual_target_temperature = ApplyTargetConstraints(e, Some(real_target)),
        !.selected_sensor_name = PhysicalSensorName])

RECURSIVE SetBaselines(_, _, _)
SetBaselines(e, settings, new_state) ==
    IF settings = {} THEN e
    ELSE LET s == CHOOSE x \in settings : TRUE
         IN  SetBaselines(SetSsotBaseline(e, s, Get(ReadFrom(s, new_state))),
                          settings \ {s}, new_state)

\* _accept_external_change after the baselines of the SSOT settings were set.
AdoptRealTarget(e, changes, real_target) ==
    IF real_target = None THEN e
    ELSE IF "temperature" \in changes
    THEN HandleExternalRealTargetChange(
            [e EXCEPT !.last_real_target_temp = real_target], Get(real_target))
    ELSE [e EXCEPT !.last_real_target_temp = real_target]

\* _accept_external_change; e.real_state already holds the new snapshot.
AcceptExternalChange(e, changes, new_state) ==
    AdoptRealTarget(SetBaselines(e, changes \cap e.ssot_settings, new_state), changes,
                    GetRealTargetTemperature(e))

VisitSets(changes, missing) ==
    { v \cup {m} : v \in SUBSET (changes \ missing), m \in missing }

\* A run of _consume_echo_changes that returns False has purged the ledgers of
\* the settings it visited: some matched ones and the first unmatched one (the
\* iteration order of the active set is not fixed).
EchoMissVisits(e, changes, new_state, t) ==
    VisitSets(changes,
              { s \in changes :
                  FindPendingMatchIndex(e, s, ReadFrom(s, new_state), t) = 0 })

\* What handle_real_state_event leaves: the object afterwards, how the
\* notification was classified, the changed settings, whether a correction
\* task was created, and the function's result.
Handled(e, outcome, changes, correction, result) ==
    [entity |-> e, outcome |-> outcome, changes |-> changes,
     correction |-> correction, result |-> result]

\* Lines 20-23: the new snapshot is held and the limits re-read.
Adopt(e, new_state) == UpdateRealTemperatureLimits([e EXCEPT !.real_state = new_state])

\* A faulty variant: every notification seeds.
ShouldSeedAlways(e) == SingleSourceOfTruth(e)

\* Line 36: `entity._single_source_of_truth and not entity._ssot_baselines`
ShouldSeed(e) == SingleSourceOfTruth(e) /\ NoSsotBaselines(e)

SeedIfEmpty(e, st) == IF ShouldSeed(e) THEN SeedSsotBaselines(e, st) ELSE e

\* Lines 33-43, for an available new state.
Prepared(e, new_state) ==
    SeedIfEmpty(RememberNonOffHvacMode(Adopt(e, new_state), Some(Get(new_state).state)),
                Get(new_state))

\* Lines 52-69: neither unchanged nor an echo.
Decide(e, changes, st, previous_real_state) ==
    IF ShouldRejectExternalChange(e, changes)
    THEN Handled(WriteHaState([e EXCEPT !.real_state = previous_real_state]),
                 "rejected", changes, TRUE, FALSE)
    ELSE Handled(AcceptExternalChange(e, changes, st), "accepted", changes, FALSE, TRUE)

\* Lines 43-69.
Classify(e, changes, st, previous_real_state, t, visited) ==
    IF changes = {} THEN Handled(e, "no_change", changes, FALSE, TRUE)
    ELSE IF IsEchoOfPending(e, changes, st, t)
    THEN Handled(ConsumeEchoChanges(e, changes, st, t), "echo", changes, FALSE, TRUE)
    ELSE Decide(CleanupAll(e, visited, t), changes, st, previous_real_state)

ClassifyPrepared(e, st, previous_real_state, t, visited) ==
    Classify(e, CollectCanonicalChanges(e, st, previous_real_state), st,
             previous_real_state, t, visited)

\* A faulty variant: an unavailable state is classified like any other.
HandleRealStateEventOfAnyState(e, new_state, t, visited) ==
    IF new_state = None
    THEN Handled(WriteHaState(Adopt(e, new_state)), "missing", {}, FALSE, FALSE)
    ELSE ClassifyPrepared(Prepared(e, new_state), Get(new_state), e.real_state,
                          t, visited)

\* handle_real_state_event(entity, event).  `visited` is the choice
\* EchoMissVisits leaves open.
HandleRealStateEvent(e, new_state, t, visited) ==
    IF new_state = None
    THEN Handled(WriteHaState(Adopt(e, new_state)), "missing", {}, FALSE, FALSE)
    ELSE IF ~Available(Get(new_state))
    THEN Handled(Adopt(e, new_state), "unavailable", {}, FALSE, TRUE)
    ELSE ClassifyPrepared(Prepared(e, new_state), Get(new_state), e.real_state,
                          t, visited)

VisitsFor(e, changes, st, t) ==
    IF changes = {} \/ IsEchoOfPending(e, changes, st, t) THEN {{}}
    ELSE EchoMissVisits(e, changes, st, t)

VisitsPrepared(e, st, previous_real_state, t) ==
    VisitsFor(e, CollectCanonicalChanges(e, st, previous_real_state), st, t)

\* The choices of `visited` for a notification.
VisitChoices(e, new_state, t) ==
    IF new_state = None \/ ~Available(Get(new_state)) THEN {{}}
    ELSE VisitsPrepared(Prepared(e, new_state), Get(new_state), e.real_state, t)

-----------------------------------------------------------------------------
(* Tasks: realignment (_run), correction, and the callers' handlers *)

IdleTask ==
    [pc |-> "idle", retry |-> FALSE, desired |-> None, snapshot |-> None,
     pending_updates |-> <<>>, began |-> 0]

IdleCaller ==
    [pc |-> "idle", op |-> "none", requested |-> None, constrained |-> None,
     real_target |-> None, display_current |-> None, real_current |-> None,
     snapshot |-> None, pending_updates |-> <<>>, recorded |-> None, began |-> 0]

IdleCorrection ==
    [pc |-> "idle", device_state |-> None, todo |-> {}, corrected_groups |-> {},
     sent |-> {}, sending |-> None, raised |-> {}, baselines |-> None]

NoEv == [kind |-> "none"]

\* A faulty variant: the task in flight goes unnoticed.
NeverInFlight(e, rl) == FALSE

\* `self._sensor_realign_task and not self._sensor_realign_task.done()`
RealignTaskInFlight(e, rl) ==
    e.sensor_realign_task # None /\ rl[Get(e.sensor_realign_task)].pc # "idle"

FreeTasks(rl) == { id \in DOMAIN rl : rl[id].pc = "idle" }

CreateRealign(e, rl, retry, id) ==
    [entity |-> [e EXCEPT !.sensor_realign_task = Some(id)],
     realigns |-> [rl EXCEPT ![id] = [IdleTask EXCEPT !.pc = "created",
                                                      !.retry = retry]]]

\* _schedule_target_realign(retry): the object and the tasks afterwards.
ScheduleTargetRealign(e, rl, retry) ==
    IF RealignTaskInFlight(e, rl) \/ FreeTasks(rl) = {}
    THEN [entity |-> e, realigns |-> rl]
    ELSE CreateRealign(e, rl, retry, Lowest(FreeTasks(rl)))

-----------------------------------------------------------------------------
(* Bounds and the inputs of a run *)

MaxEvents == 3
MaxRealignEvents == 4
MaxStartupEvents == 2
MaxLedgerEvents == 2
MaxEchoEvents == 4
MaxCorrectionEvents == 3
MaxSeedingEvents == 3
MaxInFlightEvents == 4
MaxUnavailableEvents == 3
MaxSubStepEvents == 4
MaxDisplayEvents == 3
MaxLedgerRecords == 6
MaxComparisons == 1
MaxCalls == 2
MaxRecords == 4
MaxTasks == 2
MaxCorrections == 1
StartTime == 100

CallerIds == 1 .. MaxCalls
TaskIds == 1 .. MaxTasks
CorrectionIds == 1 .. MaxCorrections

\* A State object of the device.
Snapshot(mode, temperature, current, fan, limits) ==
    [ state |-> mode,
      attributes |->
        [ temperature |-> temperature, current_temperature |-> current,
          fan_mode |-> fan, swing_mode |-> None,
          target_temp_high |-> None, target_temp_low |-> None, humidity |-> None,
          swing_horizontal_mode |-> None, hvac_action |-> None,
          min_temp |-> limits.min_temp, max_temp |-> limits.max_temp,
          target_temp_step |-> limits.target_temp_step,
          precision |-> limits.precision,
          supported_features |-> {"TARGET_TEMPERATURE", "FAN_MODE"},
          hvac_modes |-> <<"off", "heat", "cool">> ] ]

\* ... of a device that also takes a target range.
RangeSnapshot(mode, fan, high, low, limits) ==
    [Snapshot(mode, Some(2200), Some(2100), fan, limits) EXCEPT
        !.attributes.target_temp_high = high,
        !.attributes.target_temp_low = low,
        !.attributes.supported_features =
            {"TARGET_TEMPERATURE", "FAN_MODE", "TARGET_TEMPERATURE_RANGE"}]

HalfStepLimits ==
    [min_temp |-> Some(500), max_temp |-> Some(3500),
     target_temp_step |-> Some(50), precision |-> None]

WholeStepLimits ==
    [min_temp |-> Some(500), max_temp |-> Some(3500),
     target_temp_step |-> Some(100), precision |-> None]

TenthLimits ==
    [min_temp |-> Some(500), max_temp |-> Some(3500),
     target_temp_step |-> None, precision |-> Some(10)]

Config(ssot, it) ==
    [ ssot_settings |-> Some(ssot), it_settings |-> Some(it),
      single_source_of_truth |-> FALSE, ignore_thermostat |-> FALSE,
      user_min_temp |-> None, user_max_temp |-> None, cooldown_period |-> 0,
      default_sensor |-> Some(SubstituteSensorName) ]

\* A configuration from before the per-setting lists: the two booleans.
LegacyConfig(single_source_of_truth, ignore_thermostat) ==
    [Config({}, {}) EXCEPT !.ssot_settings = None, !.it_settings = None,
                           !.single_source_of_truth = single_source_of_truth,
                           !.ignore_thermostat = ignore_thermostat]

\* The inputs of a scenario: constructor configurations, device states, sensor
\* readings, requested virtual targets, forwarded settings, clock steps.
Configs(scn) ==
    CASE scn = "main" ->
            { [Config({}, {}) EXCEPT !.cooldown_period = 30],
              Config({"hvac_mode", "fan_mode"}, {}),
              Config({"fan_mode"}, {"hvac_mode"}) }
      [] scn = "translate" ->
            { Config({}, {}), [Config({}, {}) EXCEPT !.user_max_temp = Some(2550)] }
      [] scn = "realign" ->
            { [Config({}, {}) EXCEPT !.cooldown_period = 30] }
      [] scn \in {"ledger", "values_match", "display"} -> { Config({}, {}) }
      [] scn = "echo" ->
            { Config({}, {}), Config({"fan_mode"}, {}), Config({}, {"hvac_mode"}) }
      [] scn = "seeding" ->
            { Config({"hvac_mode", "fan_mode"}, {}), Config({}, {"fan_mode"}) }
      [] scn \in {"in_flight", "unavailable"} ->
            { Config({}, {}), Config({"hvac_mode", "fan_mode"}, {}), Config({}, {"fan_mode"}) }
      [] scn = "correction" ->
            { Config({"fan_mode", "target_temp_high", "target_temp_low"}, {}),
              Config({}, {"hvac_mode"}) }
      [] scn = "sub_step" ->
            { Config({}, {"temperature"}), Config({"temperature", "fan_mode"}, {}) }
      [] scn = "startup" ->
            { Config({}, {}),
              Config({"hvac_mode"}, {"fan_mode"}),
              Config({"fan_mode", "swing_mode"}, {"hvac_mode", "eco_mode"}),
              LegacyConfig(TRUE, FALSE),
              LegacyConfig(FALSE, TRUE),
              [LegacyConfig(FALSE, TRUE) EXCEPT !.ssot_settings = Some({"fan_mode"})] }

DeviceStates(scn) ==
    CASE scn = "main" ->
            { Snapshot("heat", Some(2200), Some(2100), Some("auto"), HalfStepLimits),
              Snapshot("cool", Some(2200), Some(2100), Some("auto"), HalfStepLimits),
              Snapshot("heat", Some(2300), Some(2100), Some("auto"), HalfStepLimits),
              Snapshot("cool", Some(2200), Some(2100), Some("high"), HalfStepLimits),
              Snapshot("heat", Some(2230), Some(2100), Some("high"), HalfStepLimits),
              Snapshot(STATE_UNAVAILABLE, None, None, None, HalfStepLimits) }
      [] scn = "startup" ->
            { Snapshot("heat", Some(2200), Some(2100), Some("auto"), HalfStepLimits),
              Snapshot("cool", Some(2200), Some(2100), Some("high"), HalfStepLimits) }
      [] scn = "echo" ->
            { Snapshot("heat", Some(2200), Some(2100), Some("auto"), HalfStepLimits),
              Snapshot("heat", Some(2200), Some(2100), Some("high"), HalfStepLimits),
              Snapshot("off", Some(2200), Some(2100), Some("auto"), HalfStepLimits) }
      [] scn = "in_flight" ->
            { Snapshot("heat", Some(2200), Some(2100), Some("auto"), HalfStepLimits),
              Snapshot("heat", Some(2200), Some(2100), Some("high"), HalfStepLimits) }
      [] scn = "seeding" ->
            { Snapshot("heat", Some(2200), Some(2100), Some("auto"), HalfStepLimits),
              Snapshot("cool", Some(2200), Some(2100), Some("high"), HalfStepLimits),
              Snapshot(STATE_UNAVAILABLE, None, None, None, HalfStepLimits) }
      [] scn = "unavailable" ->
            { Snapshot("heat", Some(2200), Some(2100), Some("auto"), HalfStepLimits),
              Snapshot("cool", Some(2300), Some(2100), Some("high"), HalfStepLimits),
              Snapshot(STATE_UNAVAILABLE, None, None, None, HalfStepLimits),
              Snapshot(STATE_UNKNOWN, None, None, None, WholeStepLimits) }
      [] scn = "correction" ->
            { RangeSnapshot("heat", Some("auto"), Some(2400), Some(2000), HalfStepLimits),
              RangeSnapshot("heat", Some("high"), Some(2500), Some(2000), HalfStepLimits),
              RangeSnapshot("heat", Some("high"), Some(2500), Some(1900), HalfStepLimits),
              RangeSnapshot("cool", None, Some(2400), Some(2030), HalfStepLimits),
              [RangeSnapshot("cool", Some("auto"), Some(2400), Some(2000), HalfStepLimits)
                  EXCEPT !.attributes.temperature = Some(2230)],
              [RangeSnapshot("heat", Some("auto"), Some(2400), Some(2000), HalfStepLimits)
                  EXCEPT !.attributes.temperature = Some(2230)] }
      [] scn = "sub_step" ->
            { Snapshot("heat", Some(2200), Some(2100), Some("auto"), HalfStepLimits),
              Snapshot("heat", Some(2250), Some(2100), Some("auto"), HalfStepLimits),
              Snapshot("heat", Some(2300), Some(2100), Some("auto"), HalfStepLimits),
              Snapshot("heat", Some(2250), Some(2100), Some("high"), HalfStepLimits) }
      [] scn = "display" ->
            { Snapshot("heat", Some(2200), Some(2100), Some("auto"), HalfStepLimits),
              Snapshot("heat", Some(2200), None, Some("auto"), HalfStepLimits) }
      [] OTHER -> { Snapshot("heat", Some(2200), Some(2100), Some("auto"), HalfStepLimits) }

InitialDeviceStates(scn) ==
    CASE scn \in {"main", "realign", "echo", "in_flight", "unavailable", "sub_step",
                  "display"} ->
            { Some(Snapshot("heat", Some(2200), Some(2100), Some("auto"), HalfStepLimits)) }
      [] scn = "translate" ->
            { Some(Snapshot("heat", Some(2200), Some(2100), Some("auto"), limits)) :
                limits \in {HalfStepLimits, WholeStepLimits, TenthLimits} }
      [] scn \in {"ledger", "values_match"} -> { None }
      [] scn = "correction" ->
            { Some(RangeSnapshot("heat", Some("auto"), Some(2400), Some(2000),
                                 HalfStepLimits)) }
      [] scn \in {"startup", "seeding"} ->
            { None,
              Some(Snapshot(STATE_UNAVAILABLE, None, None, None, HalfStepLimits)),
              Some(Snapshot("heat", Some(2200), Some(2100), Some("auto"), HalfStepLimits)) }

SensorReadings(scn) ==
    CASE scn \in {"main", "realign", "startup"} -> { Some(2250) }
      [] scn = "translate" -> { Some(2250), Some(1900) }
      [] scn = "display" -> { Some(2250), Some(0), None }

InitialSensorReadings(scn) ==
    CASE scn \in {"main", "realign", "unavailable", "display"} -> { Some(2350) }
      [] scn \in {"echo", "correction", "seeding", "in_flight", "sub_step"} -> { None }
      [] scn = "translate" -> { Some(2350), Some(1900) }
      [] scn = "startup" -> { None, Some(2350) }

Requests(scn) ==
    CASE scn \in {"main", "realign", "startup", "display"} -> { 2550 }
      [] scn = "translate" -> { 2500, 2560, 5000 }

ForwardInputs(scn) == { <<"fan_mode", "high">> }

TickSteps(scn) ==
    CASE scn \in {"realign", "in_flight"} -> { 30 }
      [] scn = "ledger" -> { 29, 30, 31 }
      [] OTHER -> { 1, 30 }

\* The events of a run.
EventsOf(scn) ==
    CASE scn = "realign" -> MaxRealignEvents
      [] scn = "startup" -> MaxStartupEvents
      [] scn = "ledger" -> MaxLedgerEvents
      [] scn = "echo" -> MaxEchoEvents
      [] scn = "correction" -> MaxCorrectionEvents
      [] scn = "seeding" -> MaxSeedingEvents
      [] scn = "in_flight" -> MaxInFlightEvents
      [] scn = "unavailable" -> MaxUnavailableEvents
      [] scn = "sub_step" -> MaxSubStepEvents
      [] scn = "display" -> MaxDisplayEvents
      [] scn = "values_match" -> MaxComparisons
      [] OTHER -> MaxEvents

\* The ledger records of a run.
RecordsOf(scn) == IF scn = "ledger" THEN MaxLedgerRecords ELSE MaxRecords

\* What the restore store hands back at startup: nothing, or the attribute bag.
RestoredState(temperature, real_target_temperature) ==
    [ active_sensor |-> None, temperature |-> temperature,
      real_target_temperature |-> real_target_temperature,
      ssot |-> [s \in SSOT_EXPORTABLE_SETTINGS |-> None] ]

RestoredStates(scn) ==
    IF scn = "startup"
    THEN { None, Some(RestoredState(None, None)), Some(RestoredState(Some(2150), Some(2200))) }
    ELSE IF scn = "seeding"
    THEN { None,
           Some(RestoredState(Some(2150), Some(2250))),
           Some([RestoredState(Some(2150), Some(2200)) EXCEPT !.ssot["fan_mode"] = Some("low")]) }
    ELSE { None }

-----------------------------------------------------------------------------
(* Construction and startup *)

\* Lines 160-183: a per-setting list (unknown keys dropped), else the old
\* boolean for all settings.
ConfiguredSettings(listed, flag) ==
    IF listed # None THEN { k \in Get(listed) : k \in TrackableSetting }
    ELSE IF flag THEN TrackableSetting
    ELSE {}

ItSettingsOf(cfg) == ConfiguredSettings(cfg.it_settings, cfg.ignore_thermostat)

\* A faulty variant: the ignore-device settings are not added to the SSOT set.
SsotSettingsWithoutIt(cfg) ==
    ConfiguredSettings(cfg.ssot_settings, cfg.single_source_of_truth)

\* Line 186: `self._ssot_settings |= self._it_settings`.
SsotSettingsOf(cfg) ==
    ConfiguredSettings(cfg.ssot_settings, cfg.single_source_of_truth)
        \cup ItSettingsOf(cfg)

\* CustomThermostatEntity.__init__
Constructor(cfg) ==
    [ cooldown_period |-> cfg.cooldown_period,
      last_real_write_time |-> 0,
      configured_default_sensor |-> cfg.default_sensor,
      use_last_active_sensor |-> FALSE,
      selected_sensor_name |->
          IF cfg.default_sensor # None THEN Get(cfg.default_sensor)
          ELSE SubstituteSensorName,
      sensor_state |-> None,
      virtual_target_temperature |-> None,
      real_state |-> None,
      pending_setting_requests |-> [s \in TrackableSetting |-> <<>>],
      last_real_target_temp |-> None,
      min_temp |-> None, max_temp |-> None,
      user_min_temp |-> cfg.user_min_temp, user_max_temp |-> cfg.user_max_temp,
      target_temp_step |-> None, precision_override |-> None,
      command_lock |-> None,
      sensor_realign_task |-> None,
      suppress_sync_logs_until |-> None,
      cooldown_timer_unsub |-> None,
      call_later |-> <<>>,
      unsub_listeners |-> FALSE,
      last_non_off_hvac_mode |-> None,
      startup_complete |-> FALSE,
      ssot_settings |-> SsotSettingsOf(cfg),
      it_settings |-> ItSettingsOf(cfg),
      ssot_baselines |-> [s \in TrackableSetting \ {"temperature"} |-> None],
      active_tracked_settings |-> CORE_TRACKED_SETTINGS ]

SensorNames == {SubstituteSensorName, PhysicalSensorName}

RestoreOne(e, s, restored) ==
    IF restored # None THEN SetSsotBaseline(e, s, Get(restored)) ELSE e

RECURSIVE RestoreBaselines(_, _, _)
RestoreBaselines(e, settings, ls) ==
    IF settings = {} THEN e
    ELSE LET s == CHOOSE x \in settings : TRUE
         IN  RestoreBaselines(RestoreOne(e, s, ls.ssot[s]), settings \ {s}, ls)

\* The restored sensor selection (lines 1626-1635).
RestoreSensor(e, restored_sensor) ==
    IF e.use_last_active_sensor /\ restored_sensor # None
       /\ Get(restored_sensor) \in SensorNames
    THEN [e EXCEPT !.selected_sensor_name = Get(restored_sensor)]
    ELSE IF e.configured_default_sensor # None
    THEN [e EXCEPT !.selected_sensor_name = Get(e.configured_default_sensor)]
    ELSE IF restored_sensor # None /\ Get(restored_sensor) \in SensorNames
    THEN [e EXCEPT !.selected_sensor_name = Get(restored_sensor)]
    ELSE e

RestoreVirtual(e, restored_virtual) ==
    IF restored_virtual # None
    THEN [e EXCEPT !.virtual_target_temperature =
                      ApplyTargetConstraints(e, restored_virtual)]
    ELSE e

RestoreRealTarget(e, restored_real) ==
    IF restored_real # None THEN [e EXCEPT !.last_real_target_temp = restored_real]
    ELSE e

RestoreSsot(e, ls) ==
    IF SingleSourceOfTruth(e) THEN RestoreBaselines(e, SSOT_EXPORTABLE_SETTINGS, ls)
    ELSE e

\* _async_restore_state, given async_get_last_state()'s answer.
RestoreState(e, last_state) ==
    IF last_state = None THEN e
    ELSE RestoreSsot(
            RestoreRealTarget(
                RestoreVirtual(RestoreSensor(e, Get(last_state).active_sensor),
                               CoerceTemperature(Get(last_state).temperature)),
                CoerceTemperature(Get(last_state).real_target_temperature)),
            Get(last_state))

\* Lines 203-206: the device's and the sensor's current states are read.
ReadStates(e, device_state, sensor_state) ==
    UpdateRealTemperatureLimits([e EXCEPT !.real_state = device_state,
                                          !.sensor_state = sensor_state])

RememberStartupMode(e) ==
    IF e.real_state # None
    THEN RememberNonOffHvacMode(e, Some(Get(e.real_state).state)) ELSE e

\* Lines 211-217: a virtual target is derived when none was restored.
DeriveVirtualTarget(e) ==
    IF e.virtual_target_temperature = None
    THEN [e EXCEPT !.virtual_target_temperature =
            ApplyTargetConstraints(e,
                OrElse(GetRealTargetTemperature(e),
                   OrElse(GetActiveSensorTemperature(e),
                          GetRealCurrentTemperature(e))))]
    ELSE e

\* Whether async_added_to_hass seeds the baselines (lines 218-226).
SeedsAtStartup(e, device_state) ==
    /\ SingleSourceOfTruth(e) /\ NoSsotBaselines(e)
    /\ device_state # None /\ Available(Get(device_state))

SeedAtStartup(e) ==
    IF SeedsAtStartup(e, e.real_state) THEN SeedSsotBaselines(e, Get(e.real_state)) ELSE e

\* async_added_to_hass, given the device's and the sensor's current states.
AddedToHass(e, last_state, device_state, sensor_state) ==
    [SeedAtStartup(DeriveVirtualTarget(RememberStartupMode(
        ReadStates(RestoreState(e, last_state), device_state, sensor_state))))
     EXCEPT !.startup_complete = TRUE, !.unsub_listeners = TRUE]

InitScenario(scn) ==
    /\ \E cfg \in Configs(scn) : entity = Constructor(cfg)
    /\ hass_state \in InitialDeviceStates(scn)
    /\ now = StartTime
    /\ callers = [c \in CallerIds |-> IdleCaller]
    /\ realigns = [id \in TaskIds |-> IdleTask]
    /\ corrections = [k \in CorrectionIds |-> IdleCorrection]
    /\ budget = [scenario |-> scn, events |-> EventsOf(scn), records |-> RecordsOf(scn)]
    /\ ev = NoEv

Init == InitScenario("main")

Startup ==
    /\ ~entity.startup_complete
    /\ \E last_state \in RestoredStates(budget.scenario),
          sensor_state \in InitialSensorReadings(budget.scenario) :
          /\ entity' = AddedToHass(entity, last_state, hass_state, sensor_state)
          /\ ev' = [kind |-> "startup",
                    seeded |-> SeedsAtStartup(RestoreState(entity, last_state), hass_state),
                    restored |-> Baselines(RestoreState(entity, last_state))]
    /\ UNCHANGED <<hass_state, now, callers, realigns, corrections, budget>>

-----------------------------------------------------------------------------
(* The device, the sensor and the clock *)

FreeCorrections == { k \in CorrectionIds : corrections[k].pc = "idle" }

\* The changed settings of a notification that match a pending write.
MatchedOf(e, changes, st, t) ==
    { s \in changes : FindPendingMatchIndex(e, s, ReadFrom(s, st), t) # 0 }

MatchedChanges(e, new_state, t) ==
    IF new_state = None \/ ~Available(Get(new_state)) THEN {}
    ELSE MatchedOf(Prepared(e, new_state),
                   CollectCanonicalChanges(Prepared(e, new_state), Get(new_state),
                                           e.real_state),
                   Get(new_state), t)

\* The correction pass that has just ended sent a command, and none raised.
CorrectionSucceeded ==
    /\ ev.kind = "correction" /\ ev.outcome = "done"
    /\ ev.sent # {} /\ ev.raised = {}

\* A faulty variant: the realignment is scheduled whatever the result.
NotifiedAlwaysScheduling(r, sched, matched, seeded) ==
    /\ r.correction => FreeCorrections # {}
    /\ entity' = IF r.result THEN WriteHaState(sched.entity)
                 ELSE [r.entity EXCEPT
                          !.sensor_realign_task = sched.entity.sensor_realign_task]
    /\ realigns' = sched.realigns
    /\ corrections' =
          IF r.correction
          THEN [corrections EXCEPT
                  ![CHOOSE k \in FreeCorrections : TRUE] =
                      [IdleCorrection EXCEPT !.pc = "created"]]
          ELSE corrections
    /\ ev' = [kind |-> "notify", outcome |-> r.outcome, changes |-> r.changes,
              matched |-> matched, correction |-> r.correction, seeded |-> seeded,
              after |-> None,
              in_flight |-> RealignTaskInFlight(entity, realigns),
              realign_created |-> sched.realigns # realigns]

\* The handler after handle_real_state_event returned r: with a true result
\* the realignment is scheduled (sched) and the state published.
Notified(r, sched, matched, seeded) ==
    /\ r.correction => FreeCorrections # {}
    /\ entity' = IF r.result THEN WriteHaState(sched.entity) ELSE r.entity
    /\ realigns' = IF r.result THEN sched.realigns ELSE realigns
    /\ corrections' =
          IF r.correction
          THEN [corrections EXCEPT
                  ![CHOOSE k \in FreeCorrections : TRUE] =
                      [IdleCorrection EXCEPT !.pc = "created"]]
          ELSE corrections
    /\ ev' = [kind |-> "notify", outcome |-> r.outcome, changes |-> r.changes,
              matched |-> matched, correction |-> r.correction, seeded |-> seeded,
              after |-> IF CorrectionSucceeded
                        THEN Some([read |-> ev.read, sent |-> ev.sent,
                                   baselines |-> ev.baselines])
                        ELSE None,
              in_flight |-> RealignTaskInFlight(entity, realigns),
              realign_created |-> r.result /\ sched.realigns # realigns]

NotifyResult(r, matched, seeded) ==
    Notified(r, ScheduleTargetRealign(r.entity, realigns, FALSE), matched, seeded)

\* Whether handle_real_state_event seeds the baselines (lines 36-37).
SeedsOnNotification(e, new_state) ==
    new_state # None /\ Available(Get(new_state)) /\ ShouldSeed(e)

\* _async_handle_real_state_event, on a state change of the device.
Notify(new_state) ==
    /\ entity.startup_complete /\ entity.unsub_listeners
    /\ budget.events > 0
    /\ \E visited \in VisitChoices(entity, new_state, now) :
          NotifyResult(HandleRealStateEvent(entity, new_state, now, visited),
                       MatchedChanges(entity, new_state, now),
                       SeedsOnNotification(entity, new_state))
    /\ hass_state' = new_state
    /\ budget' = [budget EXCEPT !.events = @ - 1]
    /\ UNCHANGED <<now, callers>>

SensorUpdated(e1, sched) ==
    /\ entity' = WriteHaState(sched.entity)
    /\ realigns' = sched.realigns
    /\ ev' = [kind |-> "sensor", in_flight |-> RealignTaskInFlight(entity, realigns),
              realign_created |-> sched.realigns # realigns]

SensorSchedule(e1) ==
    SensorUpdated(e1, IF e1.selected_sensor_name # PhysicalSensorName
                      THEN ScheduleTargetRealign(e1, realigns, FALSE)
                      ELSE [entity |-> e1, realigns |-> realigns])

\* _async_handle_sensor_state_event, for the substitute sensor.
SensorEvent(reading) ==
    /\ entity.startup_complete /\ entity.unsub_listeners
    /\ budget.events > 0
    /\ SensorSchedule([entity EXCEPT !.sensor_state = reading])
    /\ budget' = [budget EXCEPT !.events = @ - 1]
    /\ UNCHANGED <<hass_state, now, callers, corrections>>

Tick(d) ==
    /\ budget.events > 0
    /\ now' = now + d
    /\ budget' = [budget EXCEPT !.events = @ - 1]
    /\ ev' = NoEv
    /\ UNCHANGED <<entity, hass_state, callers, realigns, corrections>>

-----------------------------------------------------------------------------
(* Service calls.  A caller is one invocation of a service handler; its pc  *)
(* is the await it is suspended at.                                         *)

Release(e) == [e EXCEPT !.command_lock = None]

\* What a failed write has to leave as it was: the baselines, the last-write
\* time, the log-suppression window and every ledger's (value, ts) entries.
RollbackView(e) ==
    [ ssot_baselines |-> e.ssot_baselines,
      last_real_target_temp |-> e.last_real_target_temp,
      last_real_write_time |-> e.last_real_write_time,
      suppress_sync_logs_until |-> e.suppress_sync_logs_until,
      pending_setting_requests |->
          [s \in TrackableSetting |->
              [i \in DOMAIN e.pending_setting_requests[s] |->
                  << e.pending_setting_requests[s][i].value,
                     e.pending_setting_requests[s][i].ts >>]] ]

\* The step just taken was caller c's, of this operation, with this outcome:
\* nothing ran in between.
StepOf(c, op, outcome) ==
    ev.kind = op /\ ev.outcome = outcome /\ ev.caller = c

\* A new invocation takes the lowest free caller record.
FreeCaller(c) == callers[c].pc = "idle" /\ \A d \in CallerIds : d < c => callers[d].pc # "idle"

SetTemperatureComputed(c, requested, result) ==
    IF result = None
    THEN /\ callers' = callers
         /\ entity' = entity
         /\ ev' = [kind |-> "set_temperature", outcome |-> "not_computed", caller |-> c]
    ELSE /\ callers' = [callers EXCEPT ![c] =
                [IdleCaller EXCEPT !.pc = "computed", !.op = "set_temperature",
                                   !.requested = Some(requested),
                                   !.constrained = Some(Get(result).constrained),
                                   !.real_target = Some(Get(result).real_target),
                                   !.display_current = Some(Get(result).display_current),
                                   !.real_current = Some(Get(result).real_current)]]
         /\ entity' = [entity EXCEPT !.command_lock = Some(<<"caller", c>>)]
         /\ ev' = [kind |-> "set_temperature", outcome |-> "computed", caller |-> c]

\* async_set_temperature with ATTR_TEMPERATURE only, from `async with
\* self._command_lock` to the first await (_get_actor_name).
SetTemperatureEnter(c, requested) ==
    /\ entity.startup_complete /\ entity.unsub_listeners
    /\ FreeCaller(c)
    /\ budget.events > 0
    /\ entity.command_lock = None
    /\ SetTemperatureComputed(c, requested, ComputeDeltaTarget(entity, requested))
    /\ budget' = [budget EXCEPT !.events = @ - 1]
    /\ UNCHANGED <<hass_state, now, realigns, corrections>>

\* ... from the logging awaits to the await of the device command.
SetTemperatureBegin(c) ==
    /\ callers[c].pc = "computed"
    /\ budget.records > 0
    /\ LET real_target == Get(callers[c].real_target)
           pending_updates == << <<"temperature", real_target>> >>
           canonical_updates == IF SingleSourceOfTruth(entity)
                                THEN pending_updates ELSE <<>>
       IN  /\ entity' = BeginWriteTransaction(entity, pending_updates, canonical_updates,
                                              Some(real_target), TRUE, now, budget.records)
           /\ callers' = [callers EXCEPT ![c].pc = "sent",
                             ![c].snapshot = Some(WriteSnapshot(entity, canonical_updates)),
                             ![c].pending_updates = pending_updates,
                             ![c].recorded =
                                 Some([value |-> real_target, ts |-> now,
                                       id |-> budget.records])]
    /\ budget' = [budget EXCEPT !.records = @ - 1]
    /\ ev' = [kind |-> "set_temperature", outcome |-> "sent", caller |-> c,
              sent |-> callers[c].real_target,
              before |-> IF StepOf(c, "set_temperature", "computed")
                         THEN Some(RollbackView(entity)) ELSE None]
    /\ UNCHANGED <<hass_state, now, realigns, corrections>>

\* A faulty variant: the call returns without moving the virtual target.
SetTemperatureSucceedKeepingTarget(c) ==
    /\ callers[c].pc = "sent" /\ callers[c].op = "set_temperature"
    /\ entity' = Release(WriteHaState(entity))
    /\ callers' = [callers EXCEPT ![c] = IdleCaller]
    /\ ev' = [kind |-> "set_temperature", outcome |-> "done", caller |-> c,
              constrained |-> callers[c].constrained,
              sent |-> callers[c].real_target]
    /\ UNCHANGED <<hass_state, now, realigns, corrections, budget>>

\* ... the device command returned.
SetTemperatureSucceed(c) ==
    /\ callers[c].pc = "sent" /\ callers[c].op = "set_temperature"
    /\ entity' = Release(WriteHaState(
                    [entity EXCEPT !.virtual_target_temperature = callers[c].constrained]))
    /\ callers' = [callers EXCEPT ![c] = IdleCaller]
    /\ ev' = [kind |-> "set_temperature", outcome |-> "done", caller |-> c,
              constrained |-> callers[c].constrained,
              sent |-> callers[c].real_target]
    /\ UNCHANGED <<hass_state, now, realigns, corrections, budget>>

\* ... the device command raised: rollback, and the error goes to the caller.
SetTemperatureFail(c) ==
    /\ callers[c].pc = "sent" /\ callers[c].op = "set_temperature"
    /\ LET e1 == RollbackWriteTransaction(entity, Get(callers[c].snapshot),
                                          callers[c].pending_updates)
           before == entity.pending_setting_requests["temperature"]
           after == e1.pending_setting_requests["temperature"]
       IN  /\ entity' = Release(e1)
           /\ ev' = [kind |-> "set_temperature", outcome |-> "raised", caller |-> c,
                     error_to_caller |-> TRUE,
                     recorded |-> Get(callers[c].recorded),
                     before_call |-> Get(callers[c].snapshot).last_real_target_temp,
                     removed |-> { before[i] : i \in DOMAIN before }
                                    \ { after[i] : i \in DOMAIN after },
                     before |-> IF StepOf(c, "set_temperature", "sent")
                                THEN ev.before ELSE None]
    /\ callers' = [callers EXCEPT ![c] = IdleCaller]
    /\ UNCHANGED <<hass_state, now, realigns, corrections, budget>>

\* The shared head of _async_forward_setting, async_turn_on and async_turn_off:
\* up to the await of the device command.  No lock is taken.
BeginCommand(c, op, pending_updates) ==
    /\ entity.startup_complete /\ entity.unsub_listeners
    /\ FreeCaller(c)
    /\ budget.events > 0
    /\ budget.records > 0
    /\ LET canonical_updates == IF SingleSourceOfTruth(entity)
                                THEN pending_updates ELSE <<>>
       IN  /\ entity' = BeginWriteTransaction(entity, pending_updates, canonical_updates,
                                              None, FALSE, now, budget.records)
           /\ callers' = [callers EXCEPT ![c] =
                             [IdleCaller EXCEPT !.pc = "sent", !.op = op,
                                 !.snapshot = Some(WriteSnapshot(entity, canonical_updates)),
                                 !.pending_updates = pending_updates,
                                 !.began = budget.records]]
    /\ budget' = [budget EXCEPT !.events = @ - 1, !.records = @ - 1]
    /\ ev' = [kind |-> op, outcome |-> "sent", caller |-> c,
              before |-> Some(RollbackView(entity))]
    /\ UNCHANGED <<hass_state, now, realigns, corrections>>

\* _async_forward_setting(setting, value)
ForwardSetting(c, s, value) == BeginCommand(c, "forward", << <<s, value>> >>)

ValidModes(modes) ==
    LET Valid(m) == ToHVACMode(m) # None
    IN  SelectSeq(modes, Valid)

Members(valid) == [i \in DOMAIN valid |-> Get(ToHVACMode(valid[i]))]

\* The hvac_modes property.
HvacModes(e) ==
    IF e.real_state = None THEN <<>>
    ELSE Members(ValidModes(Get(e.real_state).attributes.hvac_modes))

IsOffMode(m) == NormalizeDiscrete(m) = "off"

FirstOnMode(modes) ==
    LET NotOff(m) == ~IsOffMode(m)
    IN  IF SelectSeq(modes, NotOff) = <<>> THEN None
        ELSE Some(Head(SelectSeq(modes, NotOff)))

\* Lines 1255-1259: the fallback to the first mode that is not off.
ExpectedOr(remembered, first_on) ==
    IF remembered = None \/ IsOffMode(Get(remembered))
    THEN IF first_on = None THEN remembered ELSE first_on
    ELSE remembered

\* async_turn_on's expected mode: None, or an HVACMode member / raw mode.
TurnOnExpectedMode(e) ==
    ExpectedOr(IF e.last_non_off_hvac_mode # None THEN e.last_non_off_hvac_mode
               ELSE GetSsotBaseline(e, "hvac_mode"),
               FirstOnMode(HvacModes(e)))

TurnOnUpdates(expected_mode) ==
    IF expected_mode # None /\ ~IsOffMode(Get(expected_mode))
    THEN << <<"hvac_mode", Get(expected_mode)>> >> ELSE <<>>

TurnOn(c) == BeginCommand(c, "turn_on", TurnOnUpdates(TurnOnExpectedMode(entity)))

TurnOff(c) == BeginCommand(c, "turn_off", << <<"hvac_mode", "HVACMode.OFF">> >>)

\* The call that returned on the step before this one: the number of its
\* ledger record and what it wrote (<<0, <<>>>>: no call returned).
JustDone ==
    IF ev.kind \in {"forward", "turn_on", "turn_off"} /\ ev.outcome = "done"
    THEN <<ev.began, ev.updates>> ELSE <<0, <<>>>>

\* The device command of a forward, turn_on or turn_off returned.
CommandSucceed(c) ==
    /\ callers[c].pc = "sent" /\ callers[c].op # "set_temperature"
    /\ callers' = [callers EXCEPT ![c] = IdleCaller]
    /\ ev' = [kind |-> callers[c].op, outcome |-> "done", caller |-> c,
              began |-> callers[c].began, updates |-> callers[c].pending_updates]
    /\ UNCHANGED <<entity, hass_state, now, realigns, corrections, budget>>

\* ... or raised.
CommandFail(c) ==
    /\ callers[c].pc = "sent" /\ callers[c].op # "set_temperature"
    /\ entity' = RollbackWriteTransaction(entity, Get(callers[c].snapshot),
                                          callers[c].pending_updates)
    /\ callers' = [callers EXCEPT ![c] = IdleCaller]
    /\ ev' = [kind |-> callers[c].op, outcome |-> "raised", caller |-> c,
              began |-> callers[c].began, updates |-> callers[c].pending_updates,
              previous |-> JustDone,
              before |-> IF StepOf(c, callers[c].op, "sent") THEN ev.before ELSE None]
    /\ UNCHANGED <<hass_state, now, realigns, corrections, budget>>

-----------------------------------------------------------------------------
(* The realignment task (_schedule_target_realign's _run) *)

\* `finally: self._sensor_realign_task = None`, and the task is done.
FinishRealign(e, id) == [e EXCEPT !.sensor_realign_task = None]

\* What the locked part of the realignment leaves before it sends: the object
\* and the target to send (None: the body returns).
Realigned(e, desired) == [entity |-> e, desired |-> desired, why |-> "returned"]

\* The overdrive offset (lines 1503-1531).
OverdriveAdjust(e, virtual, sensor_temp, mode, real_action, tolerance) ==
    IF e.real_state # None /\ mode = Some("HVACMode.HEAT")
       /\ virtual > sensor_temp + tolerance /\ real_action # Some("heating")
    THEN OVERDRIVE_ADJUSTMENT_HEAT
    ELSE IF e.real_state # None /\ mode = Some("HVACMode.COOL")
            /\ virtual < sensor_temp - tolerance /\ real_action # Some("cooling")
    THEN OVERDRIVE_ADJUSTMENT_COOL
    ELSE 0

\* A faulty variant: the pending ledger is purged but not consulted.
RealignDesiredIgnoringPending(e, desired, current_real_target, t) ==
    IF current_real_target # None /\ IsClose(Get(current_real_target), Get(desired), 10)
    THEN Realigned(e, None)
    ELSE Realigned(CleanupPendingRequests(e, "temperature", t), desired)

\* Lines 1541-1557: nothing is sent when the device already holds the target
\* or a write of it is pending.
RealignDesired(e, desired, current_real_target, t) ==
    IF current_real_target # None /\ IsClose(Get(current_real_target), Get(desired), 10)
    THEN [Realigned(e, None) EXCEPT !.why = "device_has_target"]
    ELSE IF HasPendingSettingRequest(e, "temperature", desired,
                                     Some(PendingRequestTolerance(e)), t)
    THEN [Realigned(CleanupPendingRequests(e, "temperature", t), None)
             EXCEPT !.why = "write_pending"]
    ELSE Realigned(CleanupPendingRequests(e, "temperature", t), desired)

RealignClamped(e, clamped, t) ==
    IF clamped = None THEN Realigned(e, None)
    ELSE RealignDesired(e, ApplyTargetConstraints(e, clamped),
                        GetRealTargetTemperature(e), t)

RealignFrom(e, sensor_temp, real_current, t) ==
    IF sensor_temp = None \/ real_current = None THEN Realigned(e, None)
    ELSE RealignClamped(e,
            ApplySafetyClamp(e,
                Some(Get(real_current)
                     + (Get(e.virtual_target_temperature) - Get(sensor_temp))
                     + OverdriveAdjust(e, Get(e.virtual_target_temperature),
                           Get(sensor_temp), HvacModeProp(e),
                           IF e.real_state # None
                           THEN Get(e.real_state).attributes.hvac_action ELSE None,
                           Max(FloatOr(Precision(e), DEFAULT_PRECISION), 10)))),
            t)

\* _async_realign_real_target_from_sensor inside the lock, up to the await of
\* _async_log_real_adjustment (the pending check purges the ledger).
RealignCompute(e, t) ==
    RealignFrom(e, GetActiveSensorTemperature(e), GetRealCurrentTemperature(e), t)

RealignComputed(r, id) ==
    IF r.desired = None
    THEN /\ entity' = FinishRealign(r.entity, id)
         /\ realigns' = [realigns EXCEPT ![id] = IdleTask]
         /\ ev' = [kind |-> "realign", outcome |-> "nothing_to_send", task |-> id,
                   why |-> r.why, had_timer |-> entity.cooldown_timer_unsub # None]
    ELSE /\ entity' = [r.entity EXCEPT !.command_lock = Some(<<"realign", id>>)]
         /\ realigns' = [realigns EXCEPT ![id].pc = "computed",
                                         ![id].desired = r.desired]
         /\ ev' = [kind |-> "realign", outcome |-> "computed", task |-> id,
                   had_timer |-> entity.cooldown_timer_unsub # None]

\* The task from `async with self._command_lock` on, the lock being free.
RealignLocked(e, id) == RealignComputed(RealignCompute(e, now), id)

\* The cooldown guard (lines 1472-1486): a retry timer is set unless one runs.
CooldownBlocked(e, t) ==
    e.cooldown_period > 0 /\ t - e.last_real_write_time < e.cooldown_period

\* async_call_later(hass, delay, ...) at time t: hass holds one more timer,
\* and the handle returned names it by the time it is due.
CallLater(e, t, delay) ==
    [e EXCEPT !.call_later = Append(@, t + delay),
              !.cooldown_timer_unsub = Some(t + delay)]

\* The timers without the first one due at `due`.
WithoutTimer(timers, due) ==
    LET i == CHOOSE j \in DOMAIN timers :
                 timers[j] = due /\ \A h \in 1 .. (j - 1) : timers[h] # due
    IN  IF \E j \in DOMAIN timers : timers[j] = due
        THEN SubSeq(timers, 1, i - 1) \o SubSeq(timers, i + 1, Len(timers))
        ELSE timers

\* `if self._cooldown_timer_unsub: self._cooldown_timer_unsub();
\*  self._cooldown_timer_unsub = None`
CancelRetryTimer(e) ==
    IF e.cooldown_timer_unsub # None
    THEN [e EXCEPT !.call_later = WithoutTimer(@, Get(e.cooldown_timer_unsub)),
                   !.cooldown_timer_unsub = None]
    ELSE e

\* A faulty variant: a retry timer is set whether or not one is outstanding.
WithRetryTimerAlways(e, t) ==
    CallLater(e, t, e.cooldown_period - (t - e.last_real_write_time))

WithRetryTimer(e, t) ==
    IF e.cooldown_timer_unsub = None
    THEN CallLater(e, t, e.cooldown_period - (t - e.last_real_write_time))
    ELSE e

\* The task starts to run: the guards before the lock.
RealignStart(id) ==
    /\ realigns[id].pc = "created"
    /\ IF entity.virtual_target_temperature = None
       THEN /\ entity' = FinishRealign(entity, id)
            /\ realigns' = [realigns EXCEPT ![id] = IdleTask]
            /\ ev' = [kind |-> "realign", outcome |-> "no_virtual_target", task |-> id]
       ELSE IF CooldownBlocked(entity, now)
       THEN /\ entity' = FinishRealign(WithRetryTimer(entity, now), id)
            /\ realigns' = [realigns EXCEPT ![id] = IdleTask]
            /\ ev' = [kind |-> "realign", outcome |-> "cooldown", task |-> id,
                      had_timer |-> entity.cooldown_timer_unsub # None]
       ELSE IF entity.command_lock # None
       THEN /\ entity' = CancelRetryTimer(entity)
            /\ realigns' = [realigns EXCEPT ![id].pc = "waiting"]
            /\ ev' = [kind |-> "realign", outcome |-> "waiting", task |-> id,
                      had_timer |-> entity.cooldown_timer_unsub # None]
       ELSE RealignLocked(CancelRetryTimer(entity), id)
    /\ UNCHANGED <<hass_state, now, callers, corrections, budget>>

\* The task gets the lock it waited for.
RealignAcquire(id) ==
    /\ realigns[id].pc = "waiting"
    /\ entity.command_lock = None
    /\ RealignLocked(entity, id)
    /\ UNCHANGED <<hass_state, now, callers, corrections, budget>>

\* ... from the logging await to the await of the device command.
RealignBegin(id) ==
    /\ realigns[id].pc = "computed"
    /\ budget.records > 0
    /\ LET desired == Get(realigns[id].desired)
           pending_updates == << <<"temperature", desired>> >>
           canonical_updates == IF SingleSourceOfTruth(entity)
                                THEN pending_updates ELSE <<>>
       IN  /\ entity' = BeginWriteTransaction(entity, pending_updates, canonical_updates,
                                              Some(desired), TRUE, now, budget.records)
           /\ realigns' = [realigns EXCEPT ![id].pc = "sent",
                              ![id].snapshot = Some(WriteSnapshot(entity, canonical_updates)),
                              ![id].pending_updates = pending_updates,
                              ![id].began = budget.records]
    /\ budget' = [budget EXCEPT !.records = @ - 1]
    /\ ev' = [kind |-> "realign", outcome |-> "sent", task |-> id,
              sent |-> realigns[id].desired]
    /\ UNCHANGED <<hass_state, now, callers, corrections>>

\* ... the device command returned.
RealignSucceed(id) ==
    /\ realigns[id].pc = "sent"
    /\ entity' = FinishRealign(Release(entity), id)
    /\ realigns' = [realigns EXCEPT ![id] = IdleTask]
    /\ ev' = [kind |-> "realign", outcome |-> "done", task |-> id,
              sent |-> realigns[id].desired]
    /\ UNCHANGED <<hass_state, now, callers, corrections, budget>>

\* ... or raised: rollback, and the error is logged, not raised.
RealignFail(id) ==
    /\ realigns[id].pc = "sent"
    /\ entity' = FinishRealign(Release(
                    RollbackWriteTransaction(entity, Get(realigns[id].snapshot),
                                             realigns[id].pending_updates)), id)
    /\ realigns' = [realigns EXCEPT ![id] = IdleTask]
    /\ ev' = [kind |-> "realign", outcome |-> "raised", task |-> id,
              sent |-> realigns[id].desired, began |-> realigns[id].began]
    /\ UNCHANGED <<hass_state, now, callers, corrections, budget>>

CooldownRetried(in_flight, sched) ==
    /\ entity' = sched.entity
    /\ realigns' = sched.realigns
    /\ ev' = [kind |-> "cooldown_retry", in_flight |-> in_flight,
              realign_created |-> sched.realigns # realigns]

\* _async_cooldown_retry, when a timer hass holds is due: the timer is spent,
\* the handle is dropped and a retry is scheduled.
CooldownRetry ==
    /\ \E i \in DOMAIN entity.call_later :
          /\ now >= entity.call_later[i]
          /\ CooldownRetried(
                RealignTaskInFlight(entity, realigns),
                ScheduleTargetRealign(
                    [entity EXCEPT !.call_later = WithoutTimer(@, entity.call_later[i]),
                                   !.cooldown_timer_unsub = None],
                    realigns, TRUE))
    /\ UNCHANGED <<hass_state, now, callers, corrections, budget>>

\* A faulty variant of the teardown: the retry timer is left to fire.
WillRemoveFromHassKeepingTimer(e) == [e EXCEPT !.unsub_listeners = FALSE]

\* async_will_remove_from_hass, as far as the object goes: the retry timer is
\* cancelled and the listeners are unsubscribed.
WillRemoveFromHass(e) == [CancelRetryTimer(e) EXCEPT !.unsub_listeners = FALSE]

\* Task.cancel() on a realignment task that is not done: the task ends at
\* the await it is suspended at, or before it has run at all.
Cancelled(task) ==
    [task EXCEPT !.pc = CASE task.pc = "created" -> "cancelled_unstarted"
                          [] task.pc = "waiting" -> "cancelled_waiting"
                          [] task.pc \in {"computed", "sent"} -> "cancelled_locked"
                          [] OTHER -> task.pc]

\* async_will_remove_from_hass.
Teardown ==
    /\ entity.startup_complete /\ entity.unsub_listeners
    /\ entity' = WillRemoveFromHass(entity)
    /\ realigns' = IF RealignTaskInFlight(entity, realigns)
                   THEN [realigns EXCEPT ![Get(entity.sensor_realign_task)] = Cancelled(@)]
                   ELSE realigns
    /\ ev' = [kind |-> "teardown", in_flight |-> RealignTaskInFlight(entity, realigns),
              timer |-> entity.cooldown_timer_unsub]
    /\ UNCHANGED <<hass_state, now, callers, corrections, budget>>

\* The cancellation reaches the task: CancelledError is no Exception, so
\* nothing is rolled back; the lock is released if the task held it, and
\* _run's `finally` drops the task if _run had started.
RealignCancelled(id) ==
    /\ realigns[id].pc \in {"cancelled_unstarted", "cancelled_waiting", "cancelled_locked"}
    /\ entity' = CASE realigns[id].pc = "cancelled_unstarted" -> entity
                   [] realigns[id].pc = "cancelled_waiting" -> FinishRealign(entity, id)
                   [] OTHER -> FinishRealign(Release(entity), id)
    /\ realigns' = [realigns EXCEPT ![id] = IdleTask]
    /\ ev' = [kind |-> "realign", outcome |-> "cancelled", task |-> id]
    /\ UNCHANGED <<hass_state, now, callers, corrections, budget>>

-----------------------------------------------------------------------------
(* The correction task (_async_correct_physical_device) *)

\* A faulty variant: a setting is corrected whether or not the device's value
\* matches the baseline.
NeedsCorrectionUnmatched(e, k) ==
    { s \in corrections[k].todo :
        /\ GetSsotBaseline(e, s) # None
        /\ ~(CorrectionGroup(s) # None
             /\ Get(CorrectionGroup(s)) \in corrections[k].corrected_groups)
        /\ ReadFrom(s, Get(corrections[k].device_state)) # None }

\* A faulty variant: a setting is corrected whether or not its group was.
NeedsCorrectionPerSetting(e, k) ==
    { s \in corrections[k].todo :
        /\ GetSsotBaseline(e, s) # None
        /\ ReadFrom(s, Get(corrections[k].device_state)) # None
        /\ ~ValuesMatch(s, ReadFrom(s, Get(corrections[k].device_state)),
                        GetSsotBaseline(e, s), None) }

\* The settings the loop would send a correction for, met now.
NeedsCorrection(e, k) ==
    { s \in corrections[k].todo :
        /\ GetSsotBaseline(e, s) # None
        /\ ~(CorrectionGroup(s) # None
             /\ Get(CorrectionGroup(s)) \in corrections[k].corrected_groups)
        /\ ReadFrom(s, Get(corrections[k].device_state)) # None
        /\ ~ValuesMatch(s, ReadFrom(s, Get(corrections[k].device_state)),
                        GetSsotBaseline(e, s), None) }

\* _CORRECTION_GROUPS[g], in the enum's order.
GroupSeq(g) ==
    LET InGroup(s) == s \in CORRECTION_GROUPS(g)
    IN  SelectSeq(TrackableSettingSeq, InGroup)

RECURSIVE RecordGroup(_, _, _, _)
RecordGroup(e, group, t, id) ==
    IF group = <<>> THEN e
    ELSE LET gs == Head(group)
             gs_baseline == GetSsotBaseline(e, gs)
         IN  RecordGroup(IF gs_baseline # None
                         THEN RecordSettingRequest(e, gs, Get(gs_baseline), t, id)
                         ELSE e,
                         Tail(group), t, id)

\* The service-call payload of a correction for s: the baselines of the whole
\* group of a grouped setting, else the baseline of s.
Payload(e, s) ==
    IF CorrectionGroup(s) # None
    THEN { <<gs, Get(GetSsotBaseline(e, gs))>> :
             gs \in { m \in CORRECTION_GROUPS(Get(CorrectionGroup(s))) :
                        GetSsotBaseline(e, m) # None } }
    ELSE { <<s, Get(GetSsotBaseline(e, s))>> }

\* The task starts to run: the live device state is read.
CorrectionStart(k) ==
    /\ corrections[k].pc = "created"
    /\ corrections' =
          IF hass_state = None \/ ~Available(Get(hass_state))
          THEN [corrections EXCEPT ![k] = IdleCorrection]
          ELSE [corrections EXCEPT ![k].pc = "running",
                                   ![k].device_state = hass_state,
                                   ![k].todo = entity.active_tracked_settings,
                                   ![k].baselines = Some(Baselines(entity))]
    /\ ev' = [kind |-> "correction", outcome |-> "started", task |-> k]
    /\ UNCHANGED <<entity, hass_state, now, callers, realigns, budget>>

\* The loop runs to its next device command, or to its end.  The loop walks a
\* Python set, whose order is not fixed: the next setting to correct is any
\* one left that needs it, and any of the others may have been passed over on
\* the way to it.
CorrectionStep(k) ==
    /\ corrections[k].pc = "running"
    /\ LET needs == NeedsCorrection(entity, k)
       IN  IF needs = {}
           THEN /\ corrections' = [corrections EXCEPT ![k] = IdleCorrection]
                /\ ev' = [kind |-> "correction", outcome |-> "done", task |-> k,
                          read |-> Get(corrections[k].device_state),
                          sent |-> corrections[k].sent,
                          raised |-> corrections[k].raised,
                          baselines |-> Get(corrections[k].baselines)]
                /\ UNCHANGED <<entity, budget>>
           ELSE /\ budget.records > 0
                /\ \E s \in needs, passed \in SUBSET (corrections[k].todo \ needs) :
                      LET grouped == CorrectionGroup(s) # None
                          e1 == IF grouped
                                THEN RecordGroup(entity, GroupSeq(Get(CorrectionGroup(s))),
                                                 now, budget.records)
                                ELSE RecordSettingRequest(entity, s,
                                        Get(GetSsotBaseline(entity, s)), now,
                                        budget.records)
                      IN  /\ entity' = [e1 EXCEPT !.last_real_write_time = now]
                          /\ corrections' =
                                [corrections EXCEPT
                                    ![k].pc = "sent",
                                    ![k].todo = @ \ ({s} \cup passed),
                                    ![k].sent = @ \cup Payload(entity, s),
                                    ![k].sending = Some(s),
                                    ![k].corrected_groups =
                                        IF grouped THEN @ \cup {Get(CorrectionGroup(s))}
                                        ELSE @]
                          /\ ev' = [kind |-> "correction", outcome |-> "sent",
                                    task |-> k, setting |-> s,
                                    payload |-> Payload(entity, s)]
                /\ budget' = [budget EXCEPT !.records = @ - 1]
    /\ UNCHANGED <<hass_state, now, callers, realigns>>

\* The device command returned: the loop goes on.
CorrectionReturn(k) ==
    /\ corrections[k].pc = "sent"
    /\ corrections' = [corrections EXCEPT ![k].pc = "running",
                                          ![k].sending = None]
    /\ ev' = [kind |-> "correction", outcome |-> "returned", task |-> k]
    /\ UNCHANGED <<entity, hass_state, now, callers, realigns, budget>>

\* A faulty variant: the error leaves the loop and ends the pass.
CorrectionFailPropagating(k) ==
    /\ corrections[k].pc = "sent"
    /\ corrections' = [corrections EXCEPT ![k] = IdleCorrection]
    /\ ev' = [kind |-> "correction", outcome |-> "raised", task |-> k,
              setting |-> Get(corrections[k].sending)]
    /\ UNCHANGED <<entity, hass_state, now, callers, realigns, budget>>

\* The device command raised: the error is logged and the loop goes on.
CorrectionFail(k) ==
    /\ corrections[k].pc = "sent"
    /\ corrections' = [corrections EXCEPT ![k].pc = "running",
                                          ![k].sending = None,
                                          ![k].raised = @ \cup {Get(corrections[k].sending)}]
    /\ ev' = [kind |-> "correction", outcome |-> "raised", task |-> k,
              setting |-> Get(corrections[k].sending)]
    /\ UNCHANGED <<entity, hass_state, now, callers, realigns, budget>>

Next ==
    \/ Startup
    \/ \E st \in DeviceStates(budget.scenario) : Notify(Some(st))
    \/ \E r \in SensorReadings(budget.scenario) : SensorEvent(r)
    \/ \E d \in TickSteps(budget.scenario) : Tick(d)
    \/ \E c \in CallerIds :
          \/ \E v \in Requests(budget.scenario) : SetTemperatureEnter(c, v)
          \/ SetTemperatureBegin(c)
          \/ SetTemperatureSucceed(c)
          \/ SetTemperatureFail(c)
          \/ \E f \in ForwardInputs(budget.scenario) : ForwardSetting(c, f[1], f[2])
          \/ TurnOn(c)
          \/ TurnOff(c)
          \/ CommandSucceed(c)
          \/ CommandFail(c)
    \/ \E id \in TaskIds :
          \/ RealignStart(id)
          \/ RealignAcquire(id)
          \/ RealignBegin(id)
          \/ RealignSucceed(id)
          \/ RealignFail(id)
    \/ CooldownRetry
    \/ \E k \in CorrectionIds :
          \/ CorrectionStart(k)
          \/ CorrectionStep(k)
          \/ CorrectionReturn(k)

Spec == Init /\ [][Next]_vars

\* The target translation alone: set_temperature calls and realignments over
\* devices of several steps and precisions, with and without a user maximum.
InitTranslate == InitScenario("translate")

NextTranslate ==
    \/ Startup
    \/ \E r \in SensorReadings(budget.scenario) : SensorEvent(r)
    \/ \E c \in CallerIds :
          \/ \E v \in Requests(budget.scenario) : SetTemperatureEnter(c, v)
          \/ SetTemperatureBegin(c)
          \/ SetTemperatureSucceed(c)
          \/ SetTemperatureFail(c)
    \/ \E id \in TaskIds :
          \/ RealignStart(id)
          \/ RealignAcquire(id)
          \/ RealignBegin(id)
          \/ RealignSucceed(id)
          \/ RealignFail(id)

SpecTranslate == InitTranslate /\ [][NextTranslate]_vars

\* Startup under every kind of configuration, restored state, device state
\* and sensor state, and the first events after it.
InitStartup == InitScenario("startup")

NextStartup ==
    \/ Startup
    \/ \E st \in DeviceStates(budget.scenario) : Notify(Some(st))
    \/ \E r \in SensorReadings(budget.scenario) : SensorEvent(r)
    \/ \E c \in CallerIds :
          \/ \E v \in Requests(budget.scenario) : SetTemperatureEnter(c, v)
          \/ SetTemperatureBegin(c)
          \/ SetTemperatureSucceed(c)
          \/ SetTemperatureFail(c)
    \/ \E id \in TaskIds :
          \/ RealignStart(id)
          \/ RealignAcquire(id)
          \/ RealignBegin(id)
          \/ RealignSucceed(id)
          \/ RealignFail(id)
    \/ \E k \in CorrectionIds :
          \/ CorrectionStart(k)
          \/ CorrectionStep(k)
          \/ CorrectionReturn(k)

SpecStartup == InitStartup /\ [][NextStartup]_vars

\* The pending ledger on its own: the ledger methods called one at a time on
\* a constructed proxy, with the clock moving between the calls.
LedgerSettings == {"temperature", "fan_mode"}

RecordedValues(s) == IF s = "temperature" THEN {2200, 2300} ELSE {"auto"}

LookupValues(s) == IF s = "temperature" THEN {2200, 2203, 2300} ELSE {"auto", "low"}

LookupTolerances(s) == IF s = "temperature" THEN {None, Some(2)} ELSE {None}

LedgerCall(kind, s, value, tolerance, result) ==
    [kind |-> kind, call |-> <<s, value, tolerance>>,
     result |-> result, before |-> entity.pending_setting_requests, at |-> now]

Record(s, value) ==
    /\ budget.records > 0
    /\ entity' = RecordSettingRequest(entity, s, value, now, budget.records)
    /\ budget' = [budget EXCEPT !.records = @ - 1]
    /\ ev' = LedgerCall("record", s, value, None, TRUE)
    /\ UNCHANGED <<hass_state, now, callers, realigns, corrections>>

Has(s, value, tolerance) ==
    /\ budget.events > 0
    /\ entity' = CleanupPendingRequests(entity, s, now)
    /\ budget' = [budget EXCEPT !.events = @ - 1]
    /\ ev' = LedgerCall("has", s, value, tolerance,
                        HasPendingSettingRequest(entity, s, Some(value), tolerance, now))
    /\ UNCHANGED <<hass_state, now, callers, realigns, corrections>>

Consume(s, value, tolerance) ==
    /\ budget.events > 0
    /\ entity' = ConsumePendingSettingRequest(entity, s, Some(value), tolerance, now)
    /\ budget' = [budget EXCEPT !.events = @ - 1]
    /\ ev' = LedgerCall("consume", s, value, tolerance,
                        HasPendingSettingRequest(entity, s, Some(value), tolerance, now))
    /\ UNCHANGED <<hass_state, now, callers, realigns, corrections>>

Remove(s, value) ==
    /\ budget.events > 0
    /\ entity' = RemovePendingSettingRequest(entity, s, value)
    /\ budget' = [budget EXCEPT !.events = @ - 1]
    /\ ev' = LedgerCall("remove", s, value, None, TRUE)
    /\ UNCHANGED <<hass_state, now, callers, realigns, corrections>>

InitLedger == InitScenario("ledger")

NextLedger ==
    \/ \E s \in LedgerSettings :
          \/ \E v \in RecordedValues(s) : Record(s, v)
          \/ \E v \in LookupValues(s), tol \in LookupTolerances(s) : Has(s, v, tol)
          \/ \E v \in LookupValues(s), tol \in LookupTolerances(s) : Consume(s, v, tol)
          \/ \E v \in RecordedValues(s) : Remove(s, v)
    \/ \E d \in TickSteps(budget.scenario) : Tick(d)

SpecLedger == InitLedger /\ [][NextLedger]_vars

\* values_match on its own: one comparison per run.
ComparedSettings == {"temperature", "target_humidity", "fan_mode", "hvac_mode"}

ComparedValues(s) ==
    CASE IsNumeric(s) -> {None, Some(0), Some(2200), Some(2203), Some(2250), Some(2251)}
      [] s = "hvac_mode" ->
            {None, Some("heat"), Some("HVACMode.HEAT"), Some("off"), Some("HVACMode.OFF")}
      [] OTHER -> {None, Some("auto"), Some("low")}

ComparedTolerances(s) ==
    IF IsNumeric(s) THEN {None, Some(0), Some(5), Some(50)} ELSE {None, Some(5)}

Compare(s, a, b, tolerance) ==
    /\ budget.events > 0
    /\ budget' = [budget EXCEPT !.events = @ - 1]
    /\ ev' = [kind |-> "values_match", call |-> <<s, a, b, tolerance>>,
              result |-> ValuesMatch(s, a, b, tolerance)]
    /\ UNCHANGED <<entity, hass_state, now, callers, realigns, corrections>>

InitValuesMatch == InitScenario("values_match")

NextValuesMatch ==
    \E s \in ComparedSettings :
        \E a \in ComparedValues(s), b \in ComparedValues(s), tol \in ComparedTolerances(s) :
            Compare(s, a, b, tol)

SpecValuesMatch == InitValuesMatch /\ [][NextValuesMatch]_vars

\* Writes and the device's reports of them: forwards, turn_on and turn_off
\* under no policy, an SSOT setting and an ignore-device setting.  There is
\* no sensor reading, so a realignment returns at its start.
InitEcho == InitScenario("echo")

NextEcho ==
    \/ Startup
    \/ \E st \in DeviceStates(budget.scenario) : Notify(Some(st))
    \/ \E c \in CallerIds :
          \/ \E f \in ForwardInputs(budget.scenario) : ForwardSetting(c, f[1], f[2])
          \/ TurnOn(c)
          \/ TurnOff(c)
          \/ CommandSucceed(c)
          \/ CommandFail(c)
    \/ \E id \in TaskIds : RealignStart(id)
    \/ \E k \in CorrectionIds :
          \/ CorrectionStart(k)
          \/ CorrectionStep(k)
          \/ CorrectionReturn(k)

SpecEcho == InitEcho /\ [][NextEcho]_vars

\* A device that moves its target by one step of 0.5 degrees or by two, behind
\* a proxy that ignores the device's temperature or holds it as an SSOT
\* setting.  There is no sensor reading.
InitSubStep == InitScenario("sub_step")

NextSubStep ==
    \/ Startup
    \/ \E st \in DeviceStates(budget.scenario) : Notify(Some(st))
    \/ \E id \in TaskIds : RealignStart(id)
    \/ \E k \in CorrectionIds :
          \/ CorrectionStart(k)
          \/ CorrectionStep(k)
          \/ CorrectionReturn(k)

SpecSubStep == InitSubStep /\ [][NextSubStep]_vars

\* The display temperature: a substitute sensor that reads 22.5, 0.0 or
\* nothing, a device that reports its current temperature or none, and
\* set_temperature calls.
InitDisplay == InitScenario("display")

NextDisplay ==
    \/ Startup
    \/ \E st \in DeviceStates(budget.scenario) : Notify(Some(st))
    \/ \E r \in SensorReadings(budget.scenario) : SensorEvent(r)
    \/ \E c \in CallerIds :
          \/ \E v \in Requests(budget.scenario) : SetTemperatureEnter(c, v)
          \/ SetTemperatureBegin(c)
          \/ SetTemperatureSucceed(c)
          \/ SetTemperatureFail(c)
    \/ \E id \in TaskIds :
          \/ RealignStart(id)
          \/ RealignAcquire(id)
          \/ RealignBegin(id)
          \/ RealignSucceed(id)
          \/ RealignFail(id)

SpecDisplay == InitDisplay /\ [][NextDisplay]_vars

\* Notifications while a forward is in flight: forwards of the fan mode by
\* two callers under no policy, SSOT and an ignore-device fan mode, their
\* rollbacks, the device's reports and the passage of time.  There is no
\* sensor reading.
InitInFlight == InitScenario("in_flight")

NextInFlight ==
    \/ Startup
    \/ \E st \in DeviceStates(budget.scenario) : Notify(Some(st))
    \/ \E d \in TickSteps(budget.scenario) : Tick(d)
    \/ \E c \in CallerIds :
          \/ \E f \in ForwardInputs(budget.scenario) : ForwardSetting(c, f[1], f[2])
          \/ CommandSucceed(c)
          \/ CommandFail(c)
    \/ \E id \in TaskIds : RealignStart(id)
    \/ \E k \in CorrectionIds :
          \/ CorrectionStart(k)
          \/ CorrectionStep(k)
          \/ CorrectionReturn(k)

SpecInFlight == InitInFlight /\ [][NextInFlight]_vars

\* The device going away: notifications with no new state, with the state
\* 'unavailable' and with the state 'unknown', between forwards of the fan
\* mode, realignments and corrections.
InitUnavailable == InitScenario("unavailable")

NextUnavailable ==
    \/ Startup
    \/ \E st \in DeviceStates(budget.scenario) : Notify(Some(st))
    \/ Notify(None)
    \/ \E c \in CallerIds :
          \/ \E f \in ForwardInputs(budget.scenario) : ForwardSetting(c, f[1], f[2])
          \/ CommandSucceed(c)
          \/ CommandFail(c)
    \/ \E id \in TaskIds :
          \/ RealignStart(id)
          \/ RealignBegin(id)
          \/ RealignSucceed(id)
          \/ RealignFail(id)
    \/ \E k \in CorrectionIds :
          \/ CorrectionStart(k)
          \/ CorrectionStep(k)
          \/ CorrectionReturn(k)

SpecUnavailable == InitUnavailable /\ [][NextUnavailable]_vars

\* Seeding of the baselines: a proxy with SSOT or ignore-device settings
\* started with the device missing, unavailable or available, with and without
\* restored baselines; notifications, forwards and turn_off with their
\* rollbacks, and corrections.  There is no sensor reading.
InitSeeding == InitScenario("seeding")

NextSeeding ==
    \/ Startup
    \/ \E st \in DeviceStates(budget.scenario) : Notify(Some(st))
    \/ \E c \in CallerIds :
          \/ \E f \in ForwardInputs(budget.scenario) : ForwardSetting(c, f[1], f[2])
          \/ TurnOff(c)
          \/ CommandSucceed(c)
          \/ CommandFail(c)
    \/ \E id \in TaskIds : RealignStart(id)
    \/ \E k \in CorrectionIds :
          \/ CorrectionStart(k)
          \/ CorrectionStep(k)
          \/ CorrectionReturn(k)

SpecSeeding == InitSeeding /\ [][NextSeeding]_vars

\* Corrections: a device with a fan and a target range behind a proxy with
\* SSOT settings or an ignore-device setting; notifications, forwards of the
\* fan mode and the correction pass.  There is no sensor reading.
InitCorrection == InitScenario("correction")

NextCorrection ==
    \/ Startup
    \/ \E st \in DeviceStates(budget.scenario) : Notify(Some(st))
    \/ \E c \in CallerIds :
          \/ \E f \in ForwardInputs(budget.scenario) : ForwardSetting(c, f[1], f[2])
          \/ CommandSucceed(c)
          \/ CommandFail(c)
    \/ \E id \in TaskIds : RealignStart(id)
    \/ \E k \in CorrectionIds :
          \/ CorrectionStart(k)
          \/ CorrectionStep(k)
          \/ CorrectionReturn(k)
          \/ CorrectionFail(k)

SpecCorrection == InitCorrection /\ [][NextCorrection]_vars

\* The scheduling of realignments: one proxy with a write cooldown, its
\* triggers (device and sensor notifications, the cooldown retry), the calls
\* that hold the lock, and the passage of time.
InitRealign == InitScenario("realign")

NextRealign ==
    \/ Startup
    \/ \E st \in DeviceStates(budget.scenario) : Notify(Some(st))
    \/ \E r \in SensorReadings(budget.scenario) : SensorEvent(r)
    \/ \E d \in TickSteps(budget.scenario) : Tick(d)
    \/ \E c \in CallerIds :
          \/ \E v \in Requests(budget.scenario) : SetTemperatureEnter(c, v)
          \/ SetTemperatureBegin(c)
          \/ SetTemperatureSucceed(c)
          \/ SetTemperatureFail(c)
    \/ \E id \in TaskIds :
          \/ RealignStart(id)
          \/ RealignAcquire(id)
          \/ RealignBegin(id)
          \/ RealignSucceed(id)
          \/ RealignFail(id)
    \/ CooldownRetry

SpecRealign == InitRealign /\ [][NextRealign]_vars

\* The same proxy, which may also be removed: the teardown and the
\* cancellation of the realignment it finds in flight.
InitTeardown == InitScenario("realign")

NextTeardown ==
    \/ Startup
    \/ \E st \in DeviceStates(budget.scenario) : Notify(Some(st))
    \/ \E r \in SensorReadings(budget.scenario) : SensorEvent(r)
    \/ \E d \in TickSteps(budget.scenario) : Tick(d)
    \/ \E c \in CallerIds :
          \/ \E v \in Requests(budget.scenario) : SetTemperatureEnter(c, v)
          \/ SetTemperatureBegin(c)
          \/ SetTemperatureSucceed(c)
          \/ SetTemperatureFail(c)
    \/ \E id \in TaskIds :
          \/ RealignStart(id)
          \/ RealignAcquire(id)
          \/ RealignBegin(id)
          \/ RealignSucceed(id)
          \/ RealignFail(id)
          \/ RealignCancelled(id)
    \/ CooldownRetry
    \/ Teardown

SpecTeardown == InitTeardown /\ [][NextTeardown]_vars

-----------------------------------------------------------------------------
(* Reconciliation of device-state notifications (C1 - C4).  A step with     *)
(* ev'.kind = "notify" is a Notify step: `entity` is the proxy before the   *)
(* handler, hass_state' the notified state, entity' the proxy after it.     *)

NotifiedAvailable ==
    ev'.kind = "notify" /\ hass_state' # None /\ Available(Get(hass_state'))

Incoming(s) == ReadFrom(s, Get(hass_state'))

\* The active tracked settings whose incoming value differs from the canonical
\* reference, as the handler collects them.
Changed ==
    CollectCanonicalChanges(Prepared(entity, hass_state'), Get(hass_state'),
                            entity.real_state)

\* The unexpired pending writes of s that the incoming value matches.
PendingMatches(s) ==
    { i \in DOMAIN entity.pending_setting_requests[s] :
        /\ Unexpired(entity.pending_setting_requests[s][i], now)
        /\ ValuesMatch(s, Incoming(s),
                       Some(entity.pending_setting_requests[s][i].value),
                       IF IsNumeric(s)
                       THEN Some(PendingRequestTolerance(Prepared(entity, hass_state')))
                       ELSE None) }

NoCorrectionCreated == ~ev'.correction /\ corrections' = corrections

CorrectionCreated ==
    /\ ev'.correction
    /\ \E k \in CorrectionIds : corrections[k].pc = "idle" /\ corrections'[k].pc = "created"

EchoAccepted(changed) ==
    /\ NoCorrectionCreated
    /\ entity'.real_state = hass_state'
    /\ \A s \in changed :
          /\ \A i \in PendingMatches(s) :
                \A j \in DOMAIN entity'.pending_setting_requests[s] :
                   entity'.pending_setting_requests[s][j].id
                      # entity.pending_setting_requests[s][i].id
          /\ GetSsotBaseline(entity', s) = Incoming(s)

\* C1: a notification of an available state whose every changed setting
\* matches an unexpired pending write is accepted: no correction is created,
\* the new snapshot is adopted, each matched pending entry leaves the ledger
\* and the baseline of each changed setting becomes the incoming value.
C1_EchoAcceptance ==
    [][ (NotifiedAvailable /\ \A s \in Changed : PendingMatches(s) # {})
            => EchoAccepted(Changed) ]_vars

C1_Witness ==
    /\ ev.kind = "notify" /\ ev.outcome = "echo"
    /\ ev.changes # {} /\ ev.matched = ev.changes
    /\ entity.real_state = hass_state

Rejected == entity'.real_state = entity.real_state /\ CorrectionCreated

Accepted == entity'.real_state = hass_state' /\ NoCorrectionCreated

ModeChangedExternally ==
    /\ entity.ssot_baselines["hvac_mode"] # None
    /\ ~ValuesMatch("hvac_mode", Incoming("hvac_mode"),
                    entity.ssot_baselines["hvac_mode"], None)
    /\ PendingMatches("hvac_mode") = {}

\* C2: with HVAC mode in the IT set, a notification whose mode differs from the
\* mode baseline and matches no unexpired pending mode write is rejected (the
\* previous snapshot is kept, a correction is created), whatever else changed
\* and whether or not the other changes match pending writes.
C2_IgnoreDeviceAbsolutism ==
    [][ (NotifiedAvailable /\ "hvac_mode" \in entity.it_settings
            /\ ModeChangedExternally) => Rejected ]_vars

C2_Witness ==
    /\ ev.kind = "notify" /\ ev.outcome = "rejected"
    /\ "hvac_mode" \in entity.it_settings
    /\ "hvac_mode" \in ev.changes \ ev.matched
    /\ ev.matched # {}
    /\ \E k \in CorrectionIds : corrections[k].pc = "created"

NotEcho(changed) == changed # {} /\ \E s \in changed : PendingMatches(s) = {}

SsotChanged(changed) == Cardinality(changed \cap entity.ssot_settings)

\* C3: with an SSOT setting and no IT setting configured, a notification that
\* is not an echo is rejected (snapshot restored, correction created) exactly
\* when more than one changed setting is SSOT-tracked; with exactly one it is
\* accepted and no correction is created.
C3_CompoundChangeRule ==
    [][ (NotifiedAvailable /\ entity.ssot_settings # {} /\ entity.it_settings = {}
            /\ NotEcho(Changed))
            => /\ SsotChanged(Changed) > 1 => Rejected
               /\ SsotChanged(Changed) <= 1 => Accepted /\ ~Rejected ]_vars

C3_Witness ==
    /\ ev.kind = "notify" /\ ev.outcome = "rejected"
    /\ entity.ssot_settings # {} /\ entity.it_settings = {}
    /\ Cardinality(ev.changes \cap entity.ssot_settings) = 2
    /\ ev.matched = {}

C3_WitnessSingle ==
    /\ ev.kind = "notify" /\ ev.outcome = "accepted"
    /\ entity.ssot_settings # {} /\ entity.it_settings = {}
    /\ Cardinality(ev.changes \cap entity.ssot_settings) = 1

\* C4: a notification whose changed settings all lie outside the SSOT set and
\* the IT set is never rejected, whatever policy is configured: the new
\* snapshot is adopted and no correction is created.
C4_UntrackedPassThrough ==
    [][ (NotifiedAvailable /\ Changed # {}
            /\ Changed \cap (entity.ssot_settings \cup entity.it_settings) = {})
            => Accepted ]_vars

\* ... which holds where no setting is ignore-device.
C4_PassThroughWithoutIT ==
    [][ (NotifiedAvailable /\ Changed # {} /\ entity.it_settings = {}
            /\ Changed \cap entity.ssot_settings = {})
            => Accepted ]_vars

C4_RejectedUntracked ==
    /\ ev.kind = "notify" /\ ev.outcome = "rejected"
    /\ ev.changes # {}
    /\ ev.changes \cap (entity.ssot_settings \cup entity.it_settings) = {}

-----------------------------------------------------------------------------
(* Service calls and realignment.  ev is the step just taken.               *)

TemperatureLedger == entity.pending_setting_requests["temperature"]

SetTemperatureRaised == ev.kind = "set_temperature" /\ ev.outcome = "raised"

\* C5: when the device command of a set_temperature call raises, on return the
\* last real target is the value from before the call, the pending temperature
\* entry the call recorded optimistically is no longer in the ledger, and the
\* error reaches the caller.
C5_RollbackOfFailedSet ==
    SetTemperatureRaised =>
        /\ entity.last_real_target_temp = ev.before_call
        /\ \A i \in DOMAIN TemperatureLedger : TemperatureLedger[i].id # ev.recorded.id
        /\ ev.error_to_caller

\* The entry the failed call recorded is still pending, and an older entry of
\* the same value, with an earlier expiry, was removed in its place.
C5_StaleEntryKept ==
    /\ SetTemperatureRaised
    /\ \E i \in DOMAIN TemperatureLedger :
          /\ TemperatureLedger[i].id = ev.recorded.id
          /\ TemperatureLedger[i].ts = ev.recorded.ts
    /\ \E old \in ev.removed : old.ts < ev.recorded.ts /\ old.value = ev.recorded.value

\* The part of the rollback that does hold.
C5_LastRealTargetRestored ==
    SetTemperatureRaised =>
        entity.last_real_target_temp = ev.before_call /\ ev.error_to_caller

\* The operations between their optimistic update and the completion or
\* rollback of their device command.
CallersWriting ==
    { c \in CallerIds : callers[c].pc = "sent"
                        /\ callers[c].op \in {"set_temperature", "turn_on", "turn_off"} }

RealignsWriting == { id \in TaskIds : realigns[id].pc = "sent" }

\* C6: among set temperature, realignment and turn on/off, no two operations
\* are at the same time between their optimistic update and the completion or
\* rollback of their device command.
C6_WriteSerialization ==
    Cardinality(CallersWriting) + Cardinality(RealignsWriting) <= 1

C6_OverlappingWrites ==
    \E c, d \in CallerIds :
        /\ callers[c].pc = "sent" /\ callers[c].op = "set_temperature"
        /\ callers[d].pc = "sent" /\ callers[d].op \in {"turn_on", "turn_off"}

\* ... which holds among the operations that take the lock.
C6_LockHoldersSerialized ==
    Cardinality({ c \in CallersWriting : callers[c].op = "set_temperature" })
        + Cardinality(RealignsWriting) <= 1

RealignTasks == { id \in TaskIds : realigns[id].pc # "idle" }

RealignTrigger == ev'.kind \in {"notify", "sensor", "cooldown_retry"}

\* C7: at most one realignment task exists at any time; a sensor notification,
\* device notification or cooldown retry handled while a task exists creates no
\* task, and a task is only ever created by such a trigger handled while none
\* exists (nothing is kept to start one later).
C7_SingleFlightRealignment ==
    /\ [](Cardinality(RealignTasks) <= 1)
    /\ [][ /\ (RealignTrigger /\ RealignTasks # {})
                => \A id \in TaskIds :
                      realigns[id].pc = "idle" => realigns'[id].pc = "idle"
           /\ (\E id \in TaskIds : realigns[id].pc = "idle" /\ realigns'[id].pc # "idle")
                => RealignTrigger /\ RealignTasks = {} ]_vars

C7_Witness ==
    /\ ev.kind = "sensor" /\ ev.in_flight /\ ~ev.realign_created
    /\ Cardinality(RealignTasks) = 1

C7_WitnessRetry ==
    /\ ev.kind = "cooldown_retry" /\ ev.in_flight /\ ~ev.realign_created
    /\ Cardinality(RealignTasks) = 1

C7_WitnessNotify ==
    /\ ev.kind = "notify" /\ ev.in_flight /\ ~ev.realign_created
    /\ Cardinality(RealignTasks) = 1

SetTemperatureComputedBy(c) ==
    /\ ev.kind = "set_temperature" /\ ev.outcome = "computed" /\ ev.caller = c
    /\ callers[c].pc = "computed"

\* The device's grid: a value no step or precision rounding moves.
OnGrid(x) ==
    /\ entity.target_temp_step # None => x % Get(entity.target_temp_step) = 0
    /\ x % Precision(entity) = 0

WithinLimits(x) ==
    /\ MinTempProp(entity) <= x /\ x <= MaxTempProp(entity)
    /\ EffectiveMin(entity) # None => Get(EffectiveMin(entity)) <= x
    /\ EffectiveMax(entity) # None => x <= Get(EffectiveMax(entity))

Unadjusted(x) == OnGrid(x) /\ WithinLimits(x)

Translated(c) ==
    Get(callers[c].real_current)
        + (Get(callers[c].requested) - Get(callers[c].display_current))

\* C8: a single-target set_temperature with display temperature d and device
\* current temperature c, where neither the request v nor c + (v - d) is moved
\* by a limit, the step or the precision, sends c + (v - d).
C8_TargetTranslation ==
    \A c \in CallerIds :
        (SetTemperatureComputedBy(c) /\ Unadjusted(Get(callers[c].requested))
            /\ Unadjusted(Translated(c)))
            => callers[c].real_target = Some(Translated(c))

\* v = 25.0, d = 23.5, c = 21.0 sends 22.5.
C8_Witness ==
    \E c \in CallerIds :
        /\ ev.kind = "set_temperature" /\ ev.outcome = "sent" /\ ev.caller = c
        /\ callers[c].requested = Some(2500)
        /\ callers[c].display_current = Some(2350)
        /\ callers[c].real_current = Some(2100)
        /\ ev.sent = Some(2250)

DeviceWrite == ev.kind \in {"set_temperature", "realign"} /\ ev.outcome = "sent"

\* C9: the temperature a set_temperature call or a realignment sends never
\* exceeds the effective maximum and, when the effective minimum does not
\* exceed the effective maximum, is never below the effective minimum.
C9_SafetyClamp ==
    (DeviceWrite /\ EffectiveMax(entity) # None)
        => /\ Get(ev.sent) <= Get(EffectiveMax(entity))
           /\ (EffectiveMin(entity) # None
                 /\ Get(EffectiveMin(entity)) <= Get(EffectiveMax(entity)))
                => Get(ev.sent) >= Get(EffectiveMin(entity))

\* A user maximum of 25.5 on a device with whole-degree steps: 26.0 is sent.
C9_SentAboveUserMax ==
    /\ DeviceWrite
    /\ entity.user_max_temp = Some(2550)
    /\ ev.sent = Some(2600)

\* ... which holds once the effective limits lie on the device's grid.
C9_ClampOnGrid ==
    (DeviceWrite /\ EffectiveMax(entity) # None /\ OnGrid(Get(EffectiveMax(entity))))
        => Get(ev.sent) <= Get(EffectiveMax(entity))

SetTemperatureStep(outcome) == ev'.kind = "set_temperature" /\ ev'.outcome = outcome

\* C10: a single-target set_temperature sets the virtual target to the
\* constrained requested value when the device command succeeds, and leaves it
\* unchanged when the command raises or the target cannot be computed.
C10_VirtualTargetFollowsSuccess ==
    [][ /\ SetTemperatureStep("done")
            => entity'.virtual_target_temperature
                 = ApplyTargetConstraints(entity, callers[ev'.caller].requested)
        /\ (SetTemperatureStep("raised") \/ SetTemperatureStep("not_computed"))
            => entity'.virtual_target_temperature = entity.virtual_target_temperature
      ]_vars

C10_Witness ==
    /\ ev.kind = "set_temperature" /\ ev.outcome = "done"
    /\ entity.virtual_target_temperature = Some(2550)

C10_WitnessRaised ==
    /\ ev.kind = "set_temperature" /\ ev.outcome = "raised"
    /\ entity.virtual_target_temperature # Some(2550)

C10_WitnessNotComputed ==
    /\ ev.kind = "set_temperature" /\ ev.outcome = "not_computed"
    /\ entity.virtual_target_temperature # None

-----------------------------------------------------------------------------
(* External changes, startup and the pending ledger *)

ReportedTarget == CoerceTemperature(Get(hass_state').attributes.temperature)

AcceptedTemperatureChange ==
    /\ NotifiedAvailable
    /\ ev'.outcome = "accepted"
    /\ "temperature" \in ev'.changes

\* C11: when a notification whose temperature changed is accepted, afterwards
\* the last real target is the target the device reports, the virtual target
\* is that target constrained to the proxy's limits and step, and the selected
\* sensor is the physical one.
C11_AcceptedExternalTemperature ==
    [][ AcceptedTemperatureChange
            => /\ ReportedTarget # None
               /\ entity'.last_real_target_temp = ReportedTarget
               /\ entity'.virtual_target_temperature
                     = ApplyTargetConstraints(entity', ReportedTarget)
               /\ entity'.selected_sensor_name = PhysicalSensorName ]_vars

C11_Witness ==
    /\ ev.kind = "notify" /\ ev.outcome = "accepted" /\ "temperature" \in ev.changes
    /\ entity.last_real_target_temp = Some(2300)
    /\ entity.virtual_target_temperature = Some(2300)
    /\ entity.selected_sensor_name = PhysicalSensorName

\* C12: once startup has completed the virtual target is never null, whatever
\* the restored state and the device and sensor states at startup were.
C12_VirtualTargetNeverNull ==
    entity.startup_complete => entity.virtual_target_temperature # None

\* Startup has completed with no device state, no sensor state and nothing
\* restored: there is nothing to derive the target from.
C12_NullAfterStartup ==
    /\ ev.kind = "startup"
    /\ entity.startup_complete
    /\ entity.real_state = None /\ entity.sensor_state = None
    /\ entity.virtual_target_temperature = None

\* ... which holds once a target was restored or the device reports one.
C12_NeverNullWithSource ==
    (entity.startup_complete
        /\ (entity.last_real_target_temp # None \/ GetRealTargetTemperature(entity) # None))
        => entity.virtual_target_temperature # None

\* C17: every setting of the ignore-device set is in the single-source-of-truth
\* set, for every constructor configuration and in every reachable state.
C17_PolicySetInclusion == entity.it_settings \subseteq entity.ssot_settings

\* A proxy built from per-setting lists whose SSOT list names none of the
\* ignore-device settings (and whose ignore-device list names an unknown
\* key), after startup.
C17_Witness ==
    /\ entity.startup_complete
    /\ entity.it_settings = {"hvac_mode"}
    /\ entity.ssot_settings = {"fan_mode", "swing_mode", "hvac_mode"}

\* A proxy built from the old ignore-thermostat boolean alone.
C17_WitnessLegacy ==
    /\ ev.kind = "notify"
    /\ entity.it_settings = TrackableSetting
    /\ entity.ssot_settings = TrackableSetting

\* The arguments of a ledger call: the setting, the value, the tolerance.
CallSetting == ev.call[1]

CallValue == ev.call[2]

CallTolerance == ev.call[3]

\* The ledger of the setting a ledger call was made on, before and after it.
LedgerBefore == ev.before[CallSetting]

LedgerAfter == entity.pending_setting_requests[CallSetting]

\* The entries of `before` that a lookup for the call's value and tolerance
\* matches, as indices.
MatchingBefore ==
    { i \in DOMAIN LedgerBefore :
        ValuesMatch(CallSetting, Some(CallValue), Some(LedgerBefore[i].value), CallTolerance) }

Age(entry) == ev.at - entry.ts

\* C13: every setting's pending ledger holds at most 5 entries; a record made
\* on a ledger of 5 drops exactly the oldest entry, keeps the other four in
\* order, and leaves the newly recorded value as the newest entry.
C13_LedgerCapacityAndEviction ==
    /\ \A s \in TrackableSetting : Len(entity.pending_setting_requests[s]) <= 5
    /\ (ev.kind = "record" /\ Len(LedgerBefore) = 5)
          => /\ Len(LedgerAfter) = 5
             /\ \A i \in 1..4 : LedgerAfter[i] = LedgerBefore[i + 1]
             /\ LedgerAfter[5].value = CallValue
             /\ LedgerAfter[5].ts = ev.at

\* The sixth temperature record in a row: the first recorded value (22.0) is
\* gone and the last (23.0) is present.
C13_Witness ==
    /\ ev.kind = "record" /\ CallSetting = "temperature" /\ CallValue = 2300
    /\ Len(LedgerBefore) = 5
    /\ LedgerBefore[1].value = 2200
    /\ \A i \in 2..5 : LedgerBefore[i].value = 2300
    /\ \A i \in DOMAIN LedgerAfter : LedgerAfter[i].value = 2300

\* C14: has(S, v) reports a recorded entry matching v exactly while the
\* entry's age does not exceed 30 seconds.
C14_ExpiryWindow ==
    ev.kind = "has" => (ev.result <=> \E i \in MatchingBefore : Age(LedgerBefore[i]) <= 30)

\* A lookup made exactly 30 seconds after the only matching entry was
\* recorded does not find it.
C14_AbsentAtThirtySeconds ==
    /\ ev.kind = "has" /\ ~ev.result
    /\ MatchingBefore # {}
    /\ \A i \in MatchingBefore : Age(LedgerBefore[i]) = 30

\* ... while an entry is found exactly while it is younger than 30 seconds,
\* and only lookups purge.
C14_FoundWhileYounger ==
    /\ ev.kind = "has" => (ev.result <=> \E i \in MatchingBefore : Age(LedgerBefore[i]) < 30)
    /\ ev.kind \in {"has", "consume"}
          => \A i \in DOMAIN LedgerAfter : Age(LedgerAfter[i]) < 30
    /\ ev.kind = "record" => Len(LedgerAfter) = Min(5, Len(LedgerBefore) + 1)

\* The entries of a list other than the one with the given id, in order.
Without(requests, id) ==
    LET Other(entry) == entry.id # id IN SelectSeq(requests, Other)

\* The entries of `before` a lookup's purge keeps.
LiveBefore ==
    LET Live(entry) == Age(entry) < PENDING_REQUEST_TIMEOUT IN SelectSeq(LedgerBefore, Live)

Earliest(requests, hits) == requests[CHOOSE i \in hits : \A j \in hits : i <= j]

MatchingIn(requests) ==
    { i \in DOMAIN requests :
        ValuesMatch(CallSetting, Some(CallValue), Some(requests[i].value), CallTolerance) }

RecordMakesHasTrue ==
    ev.kind = "record"
        => \A tol \in LookupTolerances(CallSetting) :
              HasPendingSettingRequest(entity, CallSetting, Some(CallValue), tol, now)

OtherLedgersKept ==
    \A o \in TrackableSetting \ {CallSetting} : entity.pending_setting_requests[o] = ev.before[o]

\* C15 as stated: record(S, v) makes has(S, v) true; consume(S, v) returns
\* whether a pending (not timed out) entry matches, removes exactly the
\* earliest such entry and no other entry of S's ledger, makes has(S, v) false
\* when that was the only match, and removes nothing when none matches.
C15_RoundTrip ==
    /\ RecordMakesHasTrue
    /\ ev.kind = "consume"
          => /\ ev.result <=> MatchingIn(LiveBefore) # {}
             /\ LedgerAfter =
                  IF MatchingIn(LiveBefore) = {} THEN LedgerBefore
                  ELSE Without(LedgerBefore, Earliest(LiveBefore, MatchingIn(LiveBefore)).id)
             /\ OtherLedgersKept
             /\ Cardinality(MatchingIn(LiveBefore)) = 1
                  => ~HasPendingSettingRequest(entity, CallSetting, Some(CallValue), CallTolerance, now)

\* C15 as amended: the same with the entries of S that the call's purge drops
\* (age 30 s or more) set aside: consume answers about, and removes the
\* earliest matching of, the remaining entries, and keeps every other one
\* of them.
C15_RoundTripOfLiveEntries ==
    /\ RecordMakesHasTrue
    /\ ev.kind = "consume"
          => /\ ev.result <=> MatchingIn(LiveBefore) # {}
             /\ LedgerAfter =
                  IF MatchingIn(LiveBefore) = {} THEN LiveBefore
                  ELSE Without(LiveBefore, Earliest(LiveBefore, MatchingIn(LiveBefore)).id)
             /\ OtherLedgersKept
             /\ Cardinality(MatchingIn(LiveBefore)) = 1
                  => ~HasPendingSettingRequest(entity, CallSetting, Some(CallValue), CallTolerance, now)

\* A consume of 22.0 on a temperature ledger holding two entries of 22.0 and
\* one of 23.0, with a fan-mode entry pending as well: the earlier 22.0 goes.
C15_Witness ==
    /\ ev.kind = "consume" /\ CallSetting = "temperature" /\ CallValue = 2200 /\ ev.result
    /\ Len(LedgerBefore) = 3
    /\ LedgerBefore[1].value = 2200 /\ LedgerBefore[2].value = 2300 /\ LedgerBefore[3].value = 2200
    /\ LedgerAfter = SubSeq(LedgerBefore, 2, 3)
    /\ Len(entity.pending_setting_requests["fan_mode"]) = 1

\* A consume that matches nothing and still shortens the ledger.
C15_WitnessPurged ==
    /\ ev.kind = "consume" /\ ~ev.result
    /\ MatchingIn(LedgerBefore) = {}
    /\ Len(LedgerAfter) < Len(LedgerBefore)

\* The arguments of a comparison.
ComparedA == ev.call[2]

ComparedB == ev.call[3]

\* The tolerance of a comparison in hundredths: the one given, else 0.5.
ToleranceUsed == IF ev.call[4] # None THEN Get(ev.call[4]) ELSE 50

\* An enum member unwrapped to its value.
Unwrapped(v) ==
    CASE v = "HVACMode.HEAT" -> "heat"
      [] v = "HVACMode.OFF" -> "off"
      [] OTHER -> v

\* C16: values_match(S, v, v) is true for every non-null v and for null and
\* null; a non-null value never matches null, in either order; two non-null
\* values of a numeric setting match exactly when their absolute difference is
\* at most the tolerance (0.5 when none is given), two of a discrete setting
\* exactly when they are equal with enum members unwrapped.
C16_ValueMatching ==
    ev.kind = "values_match"
        => /\ ComparedA = ComparedB => ev.result
           /\ (ComparedA = None) # (ComparedB = None) => ~ev.result
           /\ (ComparedA # None /\ ComparedB # None)
                => IF ev.call[1] \in {"temperature", "target_humidity"}
                   THEN ev.result <=>
                          \/ Get(ComparedA) - Get(ComparedB) \in 0..ToleranceUsed
                          \/ Get(ComparedB) - Get(ComparedA) \in 0..ToleranceUsed
                   ELSE ev.result <=> Unwrapped(Get(ComparedA)) = Unwrapped(Get(ComparedB))

\* 22.0 and 22.5 compared without a tolerance: a match at the default 0.5.
C16_Witness ==
    /\ ev.kind = "values_match" /\ ev.result
    /\ ev.call = <<"temperature", Some(2200), Some(2250), None>>

\* 22.0 and 22.51 do not match, nor does a value match null; an enum member
\* matches its value.
C16_WitnessOutside ==
    /\ ev.kind = "values_match" /\ ~ev.result
    /\ ev.call = <<"temperature", Some(2200), Some(2251), None>>

C16_WitnessEnum ==
    /\ ev.kind = "values_match" /\ ev.result
    /\ ev.call = <<"hvac_mode", Some("HVACMode.HEAT"), Some("heat"), None>>

(* Rollback, the life of a pending entry and stale writes *)

\* No other call, realignment or correction is under way.
Quiet ==
    /\ \A c \in CallerIds : callers[c].pc = "idle"
    /\ \A id \in TaskIds : realigns[id].pc = "idle"
    /\ \A k \in CorrectionIds : corrections[k].pc = "idle"

\* A caller's write raised with nothing run between its start and its end
\* and nothing else under way.
RaisedUninterrupted ==
    /\ ev.kind \in {"set_temperature", "forward", "turn_on", "turn_off"}
    /\ ev.outcome = "raised" /\ ev.before # None
    /\ Quiet

\* C18: when the device command of a caller's write raises and nothing else
\* ran during the call, the baselines, the last-write time, the
\* log-suppression window and the (value, ts) contents of every pending
\* ledger are what they were before the call.
C18_ExactRollback == RaisedUninterrupted => RollbackView(entity) = Get(ev.before)

\* A failed set_temperature whose target an earlier write had already
\* recorded: the ledger holds one entry as before, but with the timestamp of
\* the failed call instead of the earlier one.
C18_EarlierEntryRemoved ==
    /\ RaisedUninterrupted /\ ev.kind = "set_temperature"
    /\ Len(Get(ev.before).pending_setting_requests["temperature"]) = 1
    /\ Len(entity.pending_setting_requests["temperature"]) = 1
    /\ entity.pending_setting_requests["temperature"][1].ts
          > Get(ev.before).pending_setting_requests["temperature"][1][2]

\* ... while everything but the ledgers is restored, and the ledgers too when
\* none held an entry matching the written value.
C18_RollbackOutsideLedger ==
    RaisedUninterrupted
        => /\ entity.ssot_baselines = Get(ev.before).ssot_baselines
           /\ entity.last_real_target_temp = Get(ev.before).last_real_target_temp
           /\ entity.last_real_write_time = Get(ev.before).last_real_write_time
           /\ entity.suppress_sync_logs_until = Get(ev.before).suppress_sync_logs_until
           /\ \A s \in TrackableSetting :
                 Len(entity.pending_setting_requests[s])
                     = Len(Get(ev.before).pending_setting_requests[s])

\* No service call and no correction is under way.
NoWriteUnderWay ==
    /\ \A c \in CallerIds : callers[c].pc = "idle"
    /\ \A k \in CorrectionIds : corrections[k].pc = "idle"

\* The value a notification reports for a setting (the state now delivered).
Reported(s) == ReadFrom(s, Get(hass_state'))

\* A pending entry the delivered state reports: not timed out and matching.
ReportedEntry(s, entry) ==
    /\ Unexpired(entry, now)
    /\ ValuesMatch(s, Reported(s), Some(entry.value),
                   IF IsNumeric(s) THEN Some(PendingRequestTolerance(entity)) ELSE None)

StillPending(s, entry) ==
    \E j \in DOMAIN entity'.pending_setting_requests[s] :
        entity'.pending_setting_requests[s][j].id = entry.id

\* C19: with no service call or correction under way, processing a notification that reports the
\* value of a pending entry removes that entry from the ledger.
C19_PendingEntryLifecycle ==
    [][ (ev'.kind = "notify" /\ NoWriteUnderWay)
            => \A s \in TrackableSetting :
                 \A i \in DOMAIN entity.pending_setting_requests[s] :
                    ReportedEntry(s, entity.pending_setting_requests[s][i])
                        => ~StillPending(s, entity.pending_setting_requests[s][i]) ]_vars

\* Fan mode is an SSOT setting, 'high' was forwarded and the device has
\* reported 'high': the notification was no change and the entry is pending.
C19_EntryLeftPending ==
    /\ ev.kind = "notify" /\ ev.outcome = "no_change" /\ NoWriteUnderWay
    /\ entity.ssot_settings = {"fan_mode"}
    /\ Len(entity.pending_setting_requests["fan_mode"]) = 1
    /\ entity.pending_setting_requests["fan_mode"][1].value = "high"
    /\ ReadFrom("fan_mode", Get(hass_state)) = Some("high")
    /\ budget.events = MaxEchoEvents - 2

\* ... while without any SSOT or ignore-device setting the report removes
\* it when that setting is the only one reported with a new value.
C19_ConsumedWithoutPolicy ==
    [][ (ev'.kind = "notify" /\ NoWriteUnderWay /\ entity.ssot_settings = {})
            => \A s \in TrackableSetting :
                 \A i \in DOMAIN entity.pending_setting_requests[s] :
                    (ReportedEntry(s, entity.pending_setting_requests[s][i])
                        /\ ev'.outcome \in {"no_change", "echo", "accepted", "rejected"}
                        /\ ev'.changes = {s})
                        => ~StillPending(s, entity.pending_setting_requests[s][i]) ]_vars

C19_WitnessConsumed ==
    /\ ev.kind = "notify" /\ ev.outcome = "echo" /\ ev.changes = {"fan_mode"}
    /\ entity.ssot_settings = {}
    /\ entity.pending_setting_requests["fan_mode"] = <<>>

\* The latest proxy write of a setting, and whether the device state held
\* before the notification, itself delivered by the previous step, reports it.
LatestWrite(s) ==
    entity.pending_setting_requests[s][Len(entity.pending_setting_requests[s])].value

ConfirmedLatest(s) ==
    /\ entity.pending_setting_requests[s] # <<>>
    /\ ev.kind = "notify" /\ ev.outcome # "rejected"
    /\ entity.real_state # None
    /\ ValuesMatch(s, ReadFrom(s, Get(entity.real_state)), Some(LatestWrite(s)), None)

\* C20: for an ignore-device setting whose latest proxy write the device has
\* confirmed, a following notification reporting another value is rejected and
\* a correction is started.
C20_StaleWriteMasking ==
    [][ (ev'.kind = "notify" /\ NoWriteUnderWay)
            => \A s \in entity.it_settings :
                 (ConfirmedLatest(s) /\ Reported(s) # None
                    /\ ~ValuesMatch(s, Reported(s), Some(LatestWrite(s)), None))
                    => ev'.outcome = "rejected" /\ ev'.correction ]_vars

\* turn_off, turn_on, the device reports heat, then off: taken for the echo
\* of the older write, and off becomes the baseline while the entry of the
\* turn_on is still pending.
C20_StaleEchoAccepted ==
    /\ ev.kind = "notify" /\ ev.outcome = "echo" /\ ev.changes = {"hvac_mode"}
    /\ NoWriteUnderWay
    /\ "hvac_mode" \in entity.it_settings
    /\ Get(hass_state).state = "off"
    /\ entity.ssot_baselines["hvac_mode"] = Some("off")
    /\ Len(entity.pending_setting_requests["hvac_mode"]) = 1
    /\ entity.pending_setting_requests["hvac_mode"][1].value = "HVACMode.HEAT"
    /\ budget.events = 0 /\ budget.records = MaxRecords - 2

-----------------------------------------------------------------------------
(* The cooldown between device writes *)

\* A realignment task hands its write to the device on this step.
RealignWrites(id) == realigns[id].pc = "computed" /\ realigns'[id].pc = "sent"

SinceLastWrite == now - entity.last_real_write_time

\* C21: with a positive cooldown period, a realignment sends its write only
\* when at least the cooldown period has passed since the last device write.
C21_CooldownBeforeWrite ==
    [][ \A id \in TaskIds :
          (RealignWrites(id) /\ entity.cooldown_period > 0)
              => SinceLastWrite >= entity.cooldown_period ]_vars

\* A realignment has just sent its write in the same second as the write
\* before it (the rollback snapshot holds the time of that write).
C21_WriteWithinCooldown ==
    /\ ev.kind = "realign" /\ ev.outcome = "sent"
    /\ entity.cooldown_period > 0
    /\ now - Get(realigns[ev.task].snapshot).last_real_write_time < entity.cooldown_period

\* ... while the guard itself lets a task past its start only once the
\* cooldown period has passed.
C21_CooldownCheckedAtStart ==
    [][ \A id \in TaskIds :
          (realigns[id].pc = "created" /\ realigns'[id].pc \in {"waiting", "computed"}
             /\ entity.cooldown_period > 0)
              => SinceLastWrite >= entity.cooldown_period ]_vars

-----------------------------------------------------------------------------
(* What a rejected notification leaves behind *)

RejectedStep == ev'.kind = "notify" /\ ev'.outcome = "rejected"

\* The ids of the pending entries of every ledger.
PendingIds(e) ==
    UNION { { e.pending_setting_requests[s][i].id :
                i \in DOMAIN e.pending_setting_requests[s] } : s \in TrackableSetting }

\* The snapshot, the baselines and the ledgers after a rejection hold nothing
\* that was not there before it.
NothingAdoptedInStore ==
    /\ entity'.real_state = entity.real_state
    /\ entity'.ssot_baselines = entity.ssot_baselines
    /\ entity'.last_real_target_temp = entity.last_real_target_temp
    /\ PendingIds(entity') \subseteq PendingIds(entity)

\* C22: after a rejected notification the held snapshot is the one held
\* before, and no baseline, pending entry or remembered last non-off mode has
\* a value it did not have before the notification.
C22_RejectionAdoptsNothing ==
    [][ RejectedStep
          => /\ NothingAdoptedInStore
             /\ entity'.last_non_off_hvac_mode = entity.last_non_off_hvac_mode ]_vars

\* A notification of 'cool' was rejected for an ignore-device hvac mode whose
\* baseline is heat, and the remembered non-off mode is COOL.
C22_RejectedModeRemembered ==
    /\ ev.kind = "notify" /\ ev.outcome = "rejected"
    /\ "hvac_mode" \in entity.it_settings
    /\ entity.ssot_baselines["hvac_mode"] = Some("heat")
    /\ Get(entity.real_state).state = "heat"
    /\ Get(hass_state).state = "cool"
    /\ entity.last_non_off_hvac_mode = Some("HVACMode.COOL")

\* ... while the snapshot, the baselines and the ledgers are left alone.
C22_StoreUntouched == [][ RejectedStep => NothingAdoptedInStore ]_vars

-----------------------------------------------------------------------------
(* The correction pass *)

\* The correction task k sends a device command on this step.
CorrectionWrites(k) == corrections[k].pc = "running" /\ corrections'[k].pc = "sent"

\* C23: a correction pass sends a write only for a setting of the SSOT set
\* (which holds the ignore-device set).
C23_CorrectionScope ==
    [][ \A k \in CorrectionIds :
          CorrectionWrites(k) => ev'.setting \in entity.ssot_settings ]_vars

\* A correction has just written the temperature, which is in neither set.
C23_UntrackedSettingCorrected ==
    /\ ev.kind = "correction" /\ ev.outcome = "sent"
    /\ ev.setting = "temperature"
    /\ entity.ssot_settings # {} /\ "temperature" \notin entity.ssot_settings

\* ... and corrections are only ever created with a policy configured.
C23_CorrectionNeedsPolicy ==
    [][ \A k \in CorrectionIds : CorrectionWrites(k) => entity.ssot_settings # {} ]_vars

\* The device value the pass k read when it started.
Live(k, s) == ReadFrom(s, Get(corrections[k].device_state))

\* s has a baseline which the device value read by pass k does not match.
Disagrees(k, s) ==
    /\ GetSsotBaseline(entity, s) # None
    /\ Live(k, s) # None
    /\ ~ValuesMatch(s, Live(k, s), GetSsotBaseline(entity, s), None)

\* The pass k ends on this step.
CorrectionEnds(k) == corrections[k].pc = "running" /\ corrections'[k].pc = "idle"

SameGroup(s, t) == CorrectionGroup(s) # None /\ CorrectionGroup(s) = CorrectionGroup(t)

\* C24: every setting a correction pass writes has a baseline the device's
\* live value does not match, the value written is the baseline, and the pass
\* ends only when no active tracked setting is left with such a baseline.
C24_CorrectionTargets ==
    [][ \A k \in CorrectionIds :
          /\ CorrectionWrites(k)
                => \A p \in ev'.payload :
                      /\ p[1] \in entity.active_tracked_settings
                      /\ GetSsotBaseline(entity, p[1]) = Some(p[2])
                      /\ Disagrees(k, p[1])
          /\ CorrectionEnds(k)
                => \A s \in corrections[k].todo :
                      Disagrees(k, s)
                          => \E g \in corrections[k].corrected_groups :
                                CorrectionGroup(s) = Some(g) ]_vars

\* C24, as it holds: a write is sent for a setting that disagrees; it carries
\* that setting's baseline and, for a setting of a correction group, the
\* baseline of every member of the group that has one, agreeing or not; every
\* value written is recorded as pending; the pass ends only when no setting
\* is left that disagrees and whose group was not written.
C24_CorrectionTargetsByGroup ==
    [][ \A k \in CorrectionIds :
          /\ CorrectionWrites(k)
                => /\ ev'.setting \in corrections[k].todo
                   /\ Disagrees(k, ev'.setting)
                   /\ <<ev'.setting, Get(GetSsotBaseline(entity, ev'.setting))>>
                         \in ev'.payload
                   /\ \A p \in ev'.payload :
                         /\ GetSsotBaseline(entity, p[1]) = Some(p[2])
                         /\ p[1] = ev'.setting \/ SameGroup(p[1], ev'.setting)
                         /\ \E i \in DOMAIN entity'.pending_setting_requests[p[1]] :
                               /\ entity'.pending_setting_requests[p[1]][i].value = p[2]
                               /\ entity'.pending_setting_requests[p[1]][i].ts = now
                   /\ \A m \in TrackableSetting :
                         (SameGroup(m, ev'.setting) /\ GetSsotBaseline(entity, m) # None)
                             => \E p \in ev'.payload : p[1] = m
          /\ CorrectionEnds(k)
                => \A s \in corrections[k].todo :
                      Disagrees(k, s)
                          => \E g \in corrections[k].corrected_groups :
                                CorrectionGroup(s) = Some(g) ]_vars

\* The upper target disagreed and the range was written: the payload holds
\* the lower target too, which the device already has.
C24_Witness ==
    /\ ev.kind = "correction" /\ ev.outcome = "sent"
    /\ ev.setting = "target_temp_high"
    /\ ev.payload = { <<"target_temp_high", 2400>>, <<"target_temp_low", 2000>> }
    /\ ReadFrom("target_temp_low", Get(corrections[ev.task].device_state)) = Some(2000)
    /\ ReadFrom("target_temp_high", Get(corrections[ev.task].device_state)) = Some(2500)

\* A pass has ended after writing the fan mode and the range.
C24_WitnessPassEnded ==
    /\ ev.kind = "correction" /\ ev.outcome = "done"
    /\ \E i \in DOMAIN entity.pending_setting_requests["fan_mode"] :
          entity.pending_setting_requests["fan_mode"][i].value = "auto"
    /\ entity.pending_setting_requests["target_temp_low"] # <<>>

-----------------------------------------------------------------------------
(* Accepted external changes *)

AcceptedStep == ev'.kind = "notify" /\ ev'.outcome = "accepted"

\* C25: when an external change is accepted, the baseline of each changed
\* SSOT setting becomes the incoming value, every other baseline keeps its
\* value, and the last real target changes only when the temperature is among
\* the changed settings.
C25_BaselineUpdateOnAccept ==
    [][ AcceptedStep
          => /\ \A s \in TrackableSetting \ {"temperature"} :
                   entity'.ssot_baselines[s] =
                      IF s \in ev'.changes \cap entity.ssot_settings
                      THEN Incoming(s) ELSE entity.ssot_baselines[s]
             /\ "temperature" \in ev'.changes \cap entity.ssot_settings
                   => entity'.last_real_target_temp = Incoming("temperature")
             /\ "temperature" \notin ev'.changes
                   => entity'.last_real_target_temp = entity.last_real_target_temp ]_vars

\* Only the fan mode changed and was accepted, and the last real target went
\* from 22.0 to the 22.3 the device reports.
C25_LastRealTargetMoved ==
    /\ ev.kind = "notify" /\ ev.outcome = "accepted" /\ ev.changes = {"fan_mode"}
    /\ entity.last_real_target_temp = Some(2230)
    /\ entity.virtual_target_temperature = Some(2200)

\* ... while the baselines other than the temperature's follow the rule, and
\* so does the last real target when the temperature is an SSOT setting that
\* changed.
C25_OtherBaselinesOnAccept ==
    [][ AcceptedStep
          => /\ \A s \in TrackableSetting \ {"temperature"} :
                   entity'.ssot_baselines[s] =
                      IF s \in ev'.changes \cap entity.ssot_settings
                      THEN Incoming(s) ELSE entity.ssot_baselines[s]
             /\ "temperature" \in ev'.changes
                   => entity'.last_real_target_temp = Incoming("temperature") ]_vars

-----------------------------------------------------------------------------
(* Overlapping forwards of one setting *)

\* The call a raises on this step.
CommandRaises(a) ==
    /\ callers[a].pc = "sent" /\ callers[a].op # "set_temperature"
    /\ callers'[a].pc = "idle"
    /\ ev'.outcome = "raised" /\ ev'.caller = a

\* The calls that began after call a and while it was in flight, as
\* <<record number, updates>>: those still in flight and the one that has
\* just returned.  Record numbers count down.
LaterCalls(a) ==
    { r \in { <<callers[c].began, callers[c].pending_updates>> :
                c \in { d \in CallerIds \ {a} :
                          callers[d].pc = "sent" /\ callers[d].op # "set_temperature" } }
              \cup {JustDone} :
        r[1] > 0 /\ r[1] < callers[a].began /\ r[2] # <<>> }

WritesSameSetting(a, r) ==
    callers[a].pending_updates # <<>> /\ callers[a].pending_updates[1][1] = r[2][1][1]

HasEntry(e, s, id) ==
    \E i \in DOMAIN e.pending_setting_requests[s] : e.pending_setting_requests[s][i].id = id

\* C26: when a forward raises while a later forward of the same setting is
\* in flight or has just returned, the setting's baseline stays the later
\* call's value and the later call's pending entry stays in the ledger.
C26_OverlappingForwards ==
    [][ \A a \in CallerIds :
          CommandRaises(a)
            => \A r \in LaterCalls(a) :
                  WritesSameSetting(a, r)
                    => /\ GetSsotBaseline(entity, r[2][1][1]) = Some(r[2][1][2])
                            => GetSsotBaseline(entity', r[2][1][1]) = Some(r[2][1][2])
                       /\ HasEntry(entity, r[2][1][1], r[1])
                            => HasEntry(entity', r[2][1][1], r[1]) ]_vars

\* Two forwards of fan mode 'high' overlapped, the later one returned, then
\* the earlier one raised: both are over, the later call's entry is pending
\* and the baseline is back to 'auto'.
C26_BaselineOfFailedCall ==
    /\ ev.kind = "forward" /\ ev.outcome = "raised"
    /\ ev.previous[1] > 0 /\ ev.previous[1] < ev.began
    /\ ev.previous[2] = << <<"fan_mode", "high">> >>
    /\ \A c \in CallerIds : callers[c].pc = "idle"
    /\ "fan_mode" \in entity.ssot_settings
    /\ entity.ssot_baselines["fan_mode"] = Some("auto")
    /\ HasEntry(entity, "fan_mode", ev.previous[1])

\* ... while the later call's pending entry survives the rollback whenever
\* the failed call's own entry is still in the ledger.
C26_LaterEntryKept ==
    [][ \A a \in CallerIds :
          CommandRaises(a)
            => \A r \in LaterCalls(a) :
                  (WritesSameSetting(a, r)
                     /\ HasEntry(entity, r[2][1][1], callers[a].began)
                     /\ HasEntry(entity, r[2][1][1], r[1]))
                    => HasEntry(entity', r[2][1][1], r[1]) ]_vars

-----------------------------------------------------------------------------
(* Seeding of the baselines *)

\* The baselines of the dict are the values of the device state st, where it
\* has one.
SeededFrom(e, st) ==
    \A s \in TrackableSetting \ {"temperature"} :
        ReadFrom(s, st) # None => e.ssot_baselines[s] = ReadFrom(s, st)

\* C27: with SSOT enabled, a notification of an available device state met
\* with no baseline seeds the baselines from that state, and so does startup
\* with an available device and nothing restored; a notification seeds only
\* when there is no baseline; and once seeded, the baselines are never all
\* missing again, so that no later notification seeds.
C27_SeedingOnce ==
    /\ [][ /\ (ev'.kind = "notify" /\ hass_state' # None /\ Available(Get(hass_state'))
                 /\ SingleSourceOfTruth(entity) /\ NoSsotBaselines(entity))
                => ev'.seeded /\ SeededFrom(entity', Get(hass_state'))
           /\ (ev'.kind = "notify" /\ ev'.seeded)
                => /\ NoSsotBaselines(entity) /\ SingleSourceOfTruth(entity)
                   /\ Available(Get(hass_state'))
           /\ (ev'.kind = "startup" /\ ev'.seeded)
                => SeededFrom(entity', Get(hass_state)) /\ Available(Get(hass_state))
           /\ (ev'.kind = "startup" /\ ~ev'.seeded /\ SingleSourceOfTruth(entity)
                 /\ hass_state # None /\ Available(Get(hass_state)))
                => ~NoSsotBaselines(entity') ]_vars
    /\ []( (ev.kind \in {"startup", "notify"} /\ ev.seeded)
              => [](~NoSsotBaselines(entity)) )

\* The proxy started with the device unavailable, a turn_off was rolled back,
\* and the next notification seeded the baselines.
C27_Witness ==
    /\ ev.kind = "notify" /\ ev.seeded
    /\ entity.ssot_baselines["hvac_mode"] = Some("cool")
    /\ entity.ssot_baselines["fan_mode"] = Some("high")
    /\ budget.records < MaxRecords

\* A notification after the seeding one, with writes rolled back in between.
C27_WitnessLater ==
    /\ ev.kind = "notify" /\ ~ev.seeded /\ SingleSourceOfTruth(entity)
    /\ ~NoSsotBaselines(entity)
    /\ budget.events = 0 /\ budget.records < MaxRecords
    /\ Get(hass_state).state = "heat"
    /\ entity.ssot_baselines["hvac_mode"] = Some("cool")

-----------------------------------------------------------------------------
(* Notifications while a write is in flight *)

\* The writes whose device command is in flight, as <<setting, value>>: those
\* of the callers, of the realignment tasks and of the correction passes.
InFlightWrites ==
    UNION { { callers[c].pending_updates[i] : i \in DOMAIN callers[c].pending_updates } :
              c \in { d \in CallerIds : callers[d].pc = "sent" } }
      \cup UNION { { realigns[id].pending_updates[i] :
                       i \in DOMAIN realigns[id].pending_updates } :
                     id \in { t \in TaskIds : realigns[t].pc = "sent" } }

\* The notification on this step reports the value of an in-flight write and
\* no other changed setting.
ReportsInFlightWrite(w) ==
    /\ NotifiedAvailable
    /\ Changed \subseteq {w[1]}
    /\ ValuesMatch(w[1], Incoming(w[1]), Some(w[2]), None)

\* C28: a notification handled while a write is in flight, which reports the
\* written value and has no other changed setting, is not rejected and
\* creates no correction.
C28_WriteBeforeDispatch ==
    [][ \A w \in InFlightWrites :
          ReportsInFlightWrite(w) => ev'.outcome # "rejected" /\ NoCorrectionCreated ]_vars

\* The fan mode is an ignore-device setting; the forward of 'high' has been in
\* flight for 30 s and the device's report of 'high' was rejected.
C28_InFlightReportRejected ==
    /\ ev.kind = "notify" /\ ev.outcome = "rejected" /\ ev.changes = {"fan_mode"}
    /\ Get(hass_state).attributes.fan_mode = Some("high")
    /\ \E c \in CallerIds :
          callers[c].pc = "sent" /\ callers[c].pending_updates = << <<"fan_mode", "high">> >>

\* ... while every write has its pending entry, and under SSOT its baseline,
\* in place when its command is dispatched.
C28_RecordedBeforeDispatch ==
    [][ \A c \in CallerIds :
          (callers[c].pc # "sent" /\ callers'[c].pc = "sent")
            => \A i \in DOMAIN callers'[c].pending_updates :
                  /\ \E j \in DOMAIN entity'.pending_setting_requests[callers'[c].pending_updates[i][1]] :
                        entity'.pending_setting_requests[callers'[c].pending_updates[i][1]][j].ts = now
                  /\ SingleSourceOfTruth(entity)
                        => GetSsotBaseline(entity', callers'[c].pending_updates[i][1])
                              = Some(callers'[c].pending_updates[i][2]) ]_vars

-----------------------------------------------------------------------------
(* What the consumption of an echo removes *)

\* The entries of a setting's ledger before the step that have not timed out.
UnexpiredEntries(s) ==
    { i \in DOMAIN entity.pending_setting_requests[s] :
        Unexpired(entity.pending_setting_requests[s][i], now) }

\* The notification on this step was taken as an echo that changed setting s.
EchoOf(s) == ev'.kind = "notify" /\ ev'.outcome = "echo" /\ s \in ev'.changes

\* C29: a notification removes an unexpired pending entry only when it is
\* taken as an echo and the entry is one that matches the reported value.
C29_SelectiveConsumption ==
    [][ ev'.kind = "notify"
          => \A s \in TrackableSetting : \A i \in UnexpiredEntries(s) :
                ~(EchoOf(s) /\ ReportedEntry(s, entity.pending_setting_requests[s][i]))
                    => StillPending(s, entity.pending_setting_requests[s][i]) ]_vars

\* C29 as the code has it: an unexpired pending entry is removed exactly when
\* the notification is taken as an echo that changed its setting and the
\* entry is the latest one matching the reported value or was recorded
\* before it.
C29_ConsumptionUpToLatestMatch ==
    [][ ev'.kind = "notify"
          => \A s \in TrackableSetting : \A i \in UnexpiredEntries(s) :
                StillPending(s, entity.pending_setting_requests[s][i])
                  <=> ~(EchoOf(s) /\ \E j \in i..Len(entity.pending_setting_requests[s]) :
                            ReportedEntry(s, entity.pending_setting_requests[s][j])) ]_vars

\* turn_on and turn_off are both in flight and the one notification since,
\* taken as an echo, has emptied the ledger of the mode: the entry it matched
\* and the entry of the other write.
C29_Witness ==
    /\ ev.kind = "notify" /\ ev.outcome = "echo" /\ ev.changes = {"hvac_mode"}
    /\ \A c \in CallerIds :
          /\ callers[c].pc = "sent"
          /\ Len(callers[c].pending_updates) = 1
          /\ callers[c].pending_updates[1][1] = "hvac_mode"
    /\ callers[1].pending_updates # callers[2].pending_updates
    /\ entity.pending_setting_requests["hvac_mode"] = <<>>
    /\ budget.events = MaxEchoEvents - 3

\* An echo has left the entry recorded after the matching one.
C29_WitnessLaterEntryKept ==
    /\ ev.kind = "notify" /\ ev.outcome = "echo"
    /\ \E s \in ev.changes :
          /\ Len(entity.pending_setting_requests[s]) = 1
          /\ ~ValuesMatch(s, ReadFrom(s, Get(hass_state)),
                          Some(entity.pending_setting_requests[s][1].value), None)

\* A notification that was not taken as an echo has left a matching entry.
C29_WitnessNotAnEcho ==
    /\ ev.kind = "notify" /\ ev.outcome \in {"accepted", "rejected"}
    /\ \E s \in ev.changes :
          \E i \in DOMAIN entity.pending_setting_requests[s] :
             ValuesMatch(s, ReadFrom(s, Get(hass_state)),
                         Some(entity.pending_setting_requests[s][i].value), None)

-----------------------------------------------------------------------------
(* A realignment whose device command raises *)

\* The realignment id's device command raises on this step.
RealignRaises(id) == realigns[id].pc = "sent" /\ ev'.kind = "realign" /\ ev'.outcome = "raised"

\* The entries of the Temperature ledger other than the one the write that
\* began at `began` recorded.
OtherEntries(e, began) ==
    SelectSeq(e.pending_setting_requests["temperature"], LAMBDA x : x.id # began)

\* A later attempt at the same target would return at the pending-entry guard.
BlockedByPendingEntry(e, desired) ==
    HasPendingSettingRequest(e, "temperature", Some(desired),
                             Some(PendingRequestTolerance(e)), now)

\* C30: when the device command of a realignment raises, the task ends and
\* the lock is free, no caller's call is ended by it, the last real target,
\* the Temperature baseline and the last-write time are the ones from before
\* the write, the entry of the write is gone from the ledger and no other
\* entry is, and the virtual target is as it was.
C30_RealignmentFailure ==
    [][ \A id \in TaskIds :
          RealignRaises(id) =>
            /\ realigns'[id].pc = "idle"
            /\ entity'.command_lock = None /\ entity'.sensor_realign_task = None
            /\ callers' = callers
            /\ entity'.last_real_target_temp = Get(realigns[id].snapshot).last_real_target_temp
            /\ SingleSourceOfTruth(entity)
                  => GetSsotBaseline(entity', "temperature")
                        = Get(realigns[id].snapshot).ssot_baselines["temperature"]
            /\ entity'.last_real_write_time = Get(realigns[id].snapshot).last_real_write_time
            /\ entity'.pending_setting_requests["temperature"]
                  = OtherEntries(entity, realigns[id].began)
            /\ OtherEntries(entity', realigns[id].began)
                  = entity'.pending_setting_requests["temperature"]
            /\ \A s \in TrackableSetting \ {"temperature"} :
                  entity'.pending_setting_requests[s] = entity.pending_setting_requests[s]
            /\ entity'.virtual_target_temperature = entity.virtual_target_temperature ]_vars

\* ... and with set_temperature as the only other writer of the target, a
\* new attempt at the same target is not stopped by a pending entry.
C30_NewAttemptNotBlocked ==
    [][ \A id \in TaskIds :
          RealignRaises(id) => ~BlockedByPendingEntry(entity', Get(realigns[id].desired)) ]_vars

\* ... the snapshot a realignment rolls back to holds the values from before
\* its write.
C30_SnapshotBeforeWrite ==
    [][ \A id \in TaskIds :
          RealignWrites(id) =>
            /\ Get(realigns'[id].snapshot).last_real_target_temp = entity.last_real_target_temp
            /\ Get(realigns'[id].snapshot).last_real_write_time = entity.last_real_write_time
            /\ entity'.last_real_write_time = now
            /\ entity'.last_real_target_temp = realigns[id].desired
            /\ ~BlockedByPendingEntry(entity, Get(realigns[id].desired))
            /\ BlockedByPendingEntry(entity', Get(realigns[id].desired)) ]_vars

\* A realignment's command has raised after 30 s in flight while a
\* correction's write of the same target is in flight: the rollback has
\* removed the correction's entry, no ledger holds an entry.
C30_CorrectionEntryRemoved ==
    /\ ev.kind = "realign" /\ ev.outcome = "raised" /\ ev.began = MaxRecords
    /\ budget.records = MaxRecords - 2
    /\ now = StartTime + 30
    /\ \E k \in CorrectionIds : corrections[k].pc = "sent"
    /\ \A c \in CallerIds : callers[c].pc = "idle"
    /\ \A s \in TrackableSetting : entity.pending_setting_requests[s] = <<>>

\* A realignment's command has just raised.
C30_Witness ==
    /\ ev.kind = "realign" /\ ev.outcome = "raised"
    /\ entity.command_lock = None
    /\ \A i \in DOMAIN entity.pending_setting_requests["temperature"] :
          entity.pending_setting_requests["temperature"][i].id # ev.began

\* A realignment writes the target an earlier realignment failed to write.
C30_WitnessNewAttempt ==
    /\ ev.kind = "realign" /\ ev.outcome = "sent"
    /\ budget.records = MaxRecords - 2
    /\ Len(entity.pending_setting_requests["temperature"]) = 1
    /\ \A c \in CallerIds : callers[c].pc = "idle" /\ callers[c].began = 0

-----------------------------------------------------------------------------
(* The guards of a realignment's write *)

\* The realignment id reaches, on this step, its decision to send or not.
RealignDecides(id, outcome) ==
    /\ realigns[id].pc \in {"created", "waiting"}
    /\ ev'.kind = "realign" /\ ev'.task = id /\ ev'.outcome = outcome

\* The target differs from the one the device reports by more than 0.1.
DiffersFromReported(e, desired) ==
    \/ GetRealTargetTemperature(e) = None
    \/ Abs(Get(GetRealTargetTemperature(e)) - desired) > 10

\* The unexpired Temperature entries within the pending tolerance of a target.
PendingNear(e, desired) ==
    { i \in DOMAIN e.pending_setting_requests["temperature"] :
        /\ Unexpired(e.pending_setting_requests["temperature"][i], now)
        /\ Abs(e.pending_setting_requests["temperature"][i].value - desired)
              <= PendingRequestTolerance(e) }

\* The baselines and the ledger entries' ids.
GuardedView(e) ==
    [ ssot_baselines |-> e.ssot_baselines,
      last_real_target_temp |-> e.last_real_target_temp,
      last_real_write_time |-> e.last_real_write_time ]

\* C31: a realignment goes on to write only when the computed target differs
\* from the device's reported target by more than 0.1 and no unexpired pending
\* Temperature entry matches it; a realignment that stops at these guards
\* records no entry, changes no baseline and sends nothing.
C31_RealignmentWriteGuard ==
    [][ \A id \in TaskIds :
          /\ RealignDecides(id, "computed")
                => /\ DiffersFromReported(entity, Get(realigns'[id].desired))
                   /\ PendingNear(entity, Get(realigns'[id].desired)) = {}
          /\ RealignDecides(id, "nothing_to_send")
                => /\ GuardedView(entity') = GuardedView(entity)
                   /\ PendingIds(entity') \subseteq PendingIds(entity)
                   /\ budget' = budget /\ realigns'[id].pc = "idle"
          /\ RealignWrites(id) => realigns[id].desired # None ]_vars

\* The stronger reading, which does not hold where notifications are handled
\* during the logging await: the same two conditions at the moment the
\* command is sent.
C31_GuardHoldsAtWrite ==
    [][ \A id \in TaskIds :
          RealignWrites(id)
            => /\ DiffersFromReported(entity, Get(realigns[id].desired))
               /\ PendingNear(entity, Get(realigns[id].desired)) = {} ]_vars

\* A realignment has stopped because a write of the target it computed is
\* pending: the device still reports another target.
C31_Witness ==
    /\ ev.kind = "realign" /\ ev.outcome = "nothing_to_send" /\ ev.why = "write_pending"
    /\ \E i \in DOMAIN entity.pending_setting_requests["temperature"] :
          /\ Unexpired(entity.pending_setting_requests["temperature"][i], now)
          /\ DiffersFromReported(entity, entity.pending_setting_requests["temperature"][i].value)

\* A realignment has stopped because the device reports the target.
C31_WitnessDeviceHasTarget ==
    /\ ev.kind = "realign" /\ ev.outcome = "nothing_to_send" /\ ev.why = "device_has_target"
    /\ entity.virtual_target_temperature # None

\* A realignment has passed both guards.
C31_WitnessProceeds ==
    /\ ev.kind = "realign" /\ ev.outcome = "computed"
    /\ entity.pending_setting_requests["temperature"] # <<>>

-----------------------------------------------------------------------------
(* Notifications of a device that is missing, unavailable or unknown *)

\* The notification on this step carries no state, or 'unavailable'/'unknown'.
NotifiedUnavailable ==
    /\ ev'.kind = "notify"
    /\ hass_state' = None \/ ~Available(Get(hass_state'))

\* The fields a notification of an unavailable device may touch: the held
\* snapshot and the limits read from it, the realignment task slot and the
\* virtual target the published state falls back to.
OutsideAvailability(e) ==
    [e EXCEPT !.real_state = None, !.min_temp = None, !.max_temp = None,
              !.target_temp_step = None, !.precision_override = None,
              !.sensor_realign_task = None, !.virtual_target_temperature = None]

\* C32: a notification whose new state is missing, unavailable or unknown
\* changes no baseline and no pending entry, finds no changed setting and
\* starts no correction; the snapshot and the limits are the only stored
\* values it replaces.
C32_UnavailabilityIsNotAChange ==
    [][ NotifiedUnavailable
          => /\ entity'.ssot_baselines = entity.ssot_baselines
             /\ entity'.last_real_target_temp = entity.last_real_target_temp
             /\ entity'.last_non_off_hvac_mode = entity.last_non_off_hvac_mode
             /\ entity'.pending_setting_requests = entity.pending_setting_requests
             /\ ev'.changes = {} /\ ev'.matched = {}
             /\ ev'.outcome \in {"missing", "unavailable"}
             /\ NoCorrectionCreated
             /\ entity'.real_state = hass_state'
             /\ OutsideAvailability(entity') = OutsideAvailability(entity) ]_vars

\* ... and the virtual target is kept as well.
C32_VirtualTargetKept ==
    [][ NotifiedUnavailable
          => entity'.virtual_target_temperature = entity.virtual_target_temperature ]_vars

\* The device has gone 'unknown' or missing while a forward's entry is
\* pending and baselines are set.
C32_Witness ==
    /\ ev.kind = "notify" /\ ev.outcome \in {"missing", "unavailable"}
    /\ hass_state = None \/ Get(hass_state).state = STATE_UNKNOWN
    /\ entity.pending_setting_requests["fan_mode"] # <<>>
    /\ entity.ssot_baselines["fan_mode"] = Some("high")
    /\ entity.min_temp = None

C32_WitnessUnavailable ==
    /\ ev.kind = "notify" /\ ev.outcome = "unavailable"
    /\ Get(hass_state).state = STATE_UNAVAILABLE
    /\ entity.ssot_baselines["hvac_mode"] # None
    /\ \E k \in CorrectionIds : corrections[k].pc # "idle"

-----------------------------------------------------------------------------
(* What seeding leaves in place *)

\* Every baseline of `before` that exists is the baseline of `after`.
KeepsBaselines(before, after) ==
    \A s \in TrackableSetting : before[s] # None => after[s] = before[s]

\* C33: seeding replaces no baseline that exists.  Right after startup every
\* baseline restored from persistence is the baseline held, whether or not
\* startup seeded; and the seeding a notification does, before the
\* notification is classified, keeps every baseline the proxy held.
C33_SeedingNeverOverwrites ==
    /\ [](ev.kind = "startup" => KeepsBaselines(ev.restored, Baselines(entity)))
    /\ [][ (NotifiedAvailable /\ ev'.seeded)
              => KeepsBaselines(Baselines(entity),
                                Baselines(Prepared(entity, hass_state'))) ]_vars

\* Startup has seeded from a device that reports 22.0 while a real target of
\* 22.5 had been restored: the restored target is the baseline, the other
\* baselines come from the device.
C33_Witness ==
    /\ ev.kind = "startup" /\ ev.seeded
    /\ ev.restored["temperature"] = Some(2250)
    /\ entity.last_real_target_temp = Some(2250)
    /\ GetRealTargetTemperature(entity) = Some(2200)
    /\ entity.ssot_baselines["fan_mode"] = Some("auto")

\* Startup with a restored fan baseline 'low' and a device that reports
\* 'auto': nothing is seeded, the restored baseline is held.
C33_WitnessRestoredFan ==
    /\ ev.kind = "startup" /\ ~ev.seeded
    /\ ev.restored["fan_mode"] = Some("low")
    /\ entity.ssot_baselines["fan_mode"] = Some("low")
    /\ ReadFrom("fan_mode", Get(entity.real_state)) = Some("auto")

\* A notification has seeded a proxy that held a restored target.
C33_WitnessNotification ==
    /\ ev.kind = "notify" /\ ev.seeded
    /\ entity.virtual_target_temperature = Some(2150)

-----------------------------------------------------------------------------
(* C34: a correction converges *)

\* st is what the device reports once it has taken the pass's commands and
\* nothing else has changed: the baseline for every corrected setting, the
\* value the pass read for every other setting.
ReportsCorrected(st, e, read, sent) ==
    \A s \in TrackableSetting :
        ReadFrom(s, st) = IF \E p \in sent : p[1] = s
                          THEN GetSsotBaseline(e, s)
                          ELSE ReadFrom(s, read)

ConfirmsCorrection ==
    /\ CorrectionSucceeded
    /\ ev'.kind = "notify"
    /\ hass_state' # None
    /\ ReportsCorrected(Get(hass_state'), entity, ev.read, ev.sent)

\* A pass that reads the device state st finds every tracked setting at its
\* baseline, by the comparison of the loop, and sends nothing.
NothingToCorrect(e, st) ==
    \A s \in e.active_tracked_settings :
        \/ GetSsotBaseline(e, s) = None
        \/ ReadFrom(s, st) = None
        \/ ValuesMatch(s, ReadFrom(s, st), GetSsotBaseline(e, s), None)

\* No other pass has read the device and is still writing.
NoPassUnderWay == \A k \in CorrectionIds : corrections[k].pc \in {"idle", "created"}

Converged ==
    /\ ev'.outcome # "rejected"
    /\ NoCorrectionCreated
    /\ NothingToCorrect(entity', Get(hass_state'))

\* C34 (Correction convergence): when the commands of a correction pass have
\* succeeded and the device then reports the baseline for every corrected
\* setting and its earlier value for every other one, that notification is
\* not rejected, no correction task is created and a pass that runs
\* afterwards finds nothing to write.
C34_CorrectionConverges == [][ConfirmsCorrection => Converged]_vars

\* C34, as it holds: ... and no baseline has changed since the pass read the
\* device (no write of the proxy began in between), and no other pass that
\* read the device earlier is still writing ...
C34_ConvergesWhenUndisturbed ==
    [][(/\ ConfirmsCorrection
        /\ ev.baselines = Baselines(entity)
        /\ NoPassUnderWay) => Converged]_vars

\* The confirming report of a correction of the hvac mode was rejected: a
\* fan mode forwarded while the pass was writing is not on the device yet.
C34_WitnessDisturbed ==
    /\ ev.kind = "notify" /\ ev.after # None
    /\ hass_state # None
    /\ ReportsCorrected(Get(hass_state), entity, Get(ev.after).read, Get(ev.after).sent)
    /\ ev.outcome = "rejected"
    /\ Get(ev.after).baselines # Baselines(entity)

\* The device has confirmed a correction: the notification after the pass
\* reported the baselines the pass sent, and was found to change nothing.
C34_Witness ==
    /\ ev.kind = "notify" /\ ev.after # None
    /\ hass_state # None
    /\ ReportsCorrected(Get(hass_state), entity, Get(ev.after).read, Get(ev.after).sent)
    /\ Get(ev.after).baselines = Baselines(entity)
    /\ ev.outcome = "no_change"
    /\ \A k \in CorrectionIds : corrections[k].pc = "idle"

\* ... while the device keeps a target within the tolerance of the baseline,
\* which the pass did not correct.
C34_WitnessWithinTolerance ==
    /\ C34_Witness
    /\ ReadFrom("temperature", Get(hass_state)) # GetSsotBaseline(entity, "temperature")
    /\ ~\E p \in Get(ev.after).sent : p[1] = "temperature"

\* ... a correction that sent both bounds of the range.
C34_WitnessRange ==
    /\ C34_Witness
    /\ {"target_temp_high", "target_temp_low"} \subseteq { p[1] : p \in Get(ev.after).sent }

-----------------------------------------------------------------------------
(* C35: the two bounds of the target range are corrected by one command *)

RangeBounds == CORRECTION_GROUPS("temp_range")

\* The bounds that have a baseline, each with its baseline.
RangeBaselines(e) ==
    { <<m, Get(GetSsotBaseline(e, m))>> :
        m \in { b \in RangeBounds : GetSsotBaseline(e, b) # None } }

\* The pass k has sent a command for the range before.
RangeSent(k) == \E p \in corrections[k].sent : p[1] \in RangeBounds

\* The step records value v as a pending write of setting m.
RecordedNow(m, v) ==
    \E i \in DOMAIN entity'.pending_setting_requests[m] :
        /\ entity'.pending_setting_requests[m][i].value = v
        /\ entity'.pending_setting_requests[m][i].ts = now
        /\ entity'.pending_setting_requests[m][i].id = budget.records

\* C35 (Grouped correction): a command a correction pass sends for a bound of
\* the target range is the pass's only command for the range; it carries the
\* baseline of every bound that has one and nothing else, each of them is
\* recorded as a pending write, and the pass does not end while a bound it
\* has yet to visit disagrees with its baseline and no command for the range
\* was sent.
C35_GroupedCorrection ==
    [][ \A k \in CorrectionIds :
          /\ (CorrectionWrites(k) /\ ev'.setting \in RangeBounds)
                => /\ ~RangeSent(k)
                   /\ ev'.payload = RangeBaselines(entity)
                   /\ \A p \in ev'.payload : RecordedNow(p[1], p[2])
          /\ CorrectionEnds(k)
                => ((\E b \in RangeBounds \cap corrections[k].todo : Disagrees(k, b))
                       => RangeSent(k)) ]_vars

\* Both bounds disagreed and one command with both baselines was sent.
C35_Witness ==
    /\ ev.kind = "correction" /\ ev.outcome = "sent"
    /\ ev.setting \in RangeBounds
    /\ ev.payload = { <<"target_temp_high", 2400>>, <<"target_temp_low", 2000>> }
    /\ ReadFrom("target_temp_high", Get(corrections[ev.task].device_state)) = Some(2500)
    /\ ReadFrom("target_temp_low", Get(corrections[ev.task].device_state)) = Some(1900)
    /\ Len(entity.pending_setting_requests["target_temp_high"]) = 1
    /\ Len(entity.pending_setting_requests["target_temp_low"]) = 1

\* ... and the pass has ended with that one command for the range.
C35_WitnessPassEnded ==
    /\ ev.kind = "correction" /\ ev.outcome = "done"
    /\ ReadFrom("target_temp_high", ev.read) = Some(2500)
    /\ ReadFrom("target_temp_low", ev.read) = Some(1900)
    /\ { p \in ev.sent : p[1] \in RangeBounds }
          = { <<"target_temp_high", 2400>>, <<"target_temp_low", 2000>> }
    /\ Len(entity.pending_setting_requests["target_temp_high"]) = 1
    /\ Len(entity.pending_setting_requests["target_temp_low"]) = 1

-----------------------------------------------------------------------------
(* C36: a correction command that raises *)

\* The command of pass k raises on this step.
CorrectionRaises(k) ==
    /\ corrections[k].pc = "sent"
    /\ ev'.kind = "correction" /\ ev'.outcome = "raised" /\ ev'.task = k

\* The settings pass k has sent a command for.
SentBy(k) == { p[1] : p \in corrections[k].sent }

\* C36 (Correction failure): when a correction command raises, the pass goes
\* on (the error stays inside it) and the failure changes neither a baseline
\* nor anything else the proxy holds; a pass sends no command for a setting it
\* has sent one for, raised or not; and a pass in which a command raised still
\* ends only when no setting it has yet to visit disagrees with its baseline,
\* unless the setting's group was written.
C36_CorrectionFailure ==
    [][ \A k \in CorrectionIds :
          /\ CorrectionRaises(k)
                => /\ corrections'[k].pc = "running"
                   /\ corrections'[k].todo = corrections[k].todo
                   /\ Baselines(entity') = Baselines(entity)
                   /\ entity' = entity
          /\ CorrectionWrites(k) => ev'.setting \notin SentBy(k)
          /\ (CorrectionEnds(k) /\ corrections[k].raised # {})
                => \A s \in corrections[k].todo :
                      Disagrees(k, s)
                          => \E g \in corrections[k].corrected_groups :
                                CorrectionGroup(s) = Some(g) ]_vars

\* The command for the fan mode has raised and the pass then sent the range.
C36_Witness ==
    /\ ev.kind = "correction" /\ ev.outcome = "sent"
    /\ ev.setting \in RangeBounds
    /\ corrections[ev.task].raised = {"fan_mode"}
    /\ GetSsotBaseline(entity, "fan_mode") = Some("auto")
    /\ ReadFrom("fan_mode", Get(corrections[ev.task].device_state)) = Some("high")

\* A pass has ended after a command that raised: the fan mode was sent once,
\* its baseline is the one sent, and its entry is still pending.
C36_WitnessPassEnded ==
    /\ ev.kind = "correction" /\ ev.outcome = "done"
    /\ ev.raised = {"fan_mode"}
    /\ {"fan_mode", "target_temp_high"} \subseteq { p[1] : p \in ev.sent }
    /\ GetSsotBaseline(entity, "fan_mode") = Some("auto")
    /\ Len(entity.pending_setting_requests["fan_mode"]) = 1

-----------------------------------------------------------------------------
(* C37: the realignment a notification schedules *)

\* The step creates a realignment task, not a retry, and makes it the
\* proxy's current one; no other task is touched.
SchedulesRealignment ==
    \E id \in TaskIds :
        /\ realigns[id].pc = "idle"
        /\ realigns' = [realigns EXCEPT ![id] = [IdleTask EXCEPT !.pc = "created"]]
        /\ entity'.sensor_realign_task = Some(id)

SchedulesNothing ==
    /\ realigns' = realigns
    /\ entity'.sensor_realign_task = entity.sensor_realign_task

\* C37 (Realignment scheduling): a notification found to change nothing, to
\* be a self-echo or to be an accepted external change schedules a
\* realignment, unless one is in flight, and then it schedules nothing; a
\* rejected notification schedules nothing.
C37_RealignmentScheduling ==
    [][ ev'.kind = "notify"
          => /\ ev'.outcome \in {"no_change", "echo", "accepted"}
                   => IF RealignTaskInFlight(entity, realigns)
                      THEN SchedulesNothing ELSE SchedulesRealignment
             /\ ev'.outcome = "rejected" => SchedulesNothing ]_vars

\* An accepted external change has scheduled a realignment.
C37_Witness ==
    /\ ev.kind = "notify" /\ ev.outcome = "accepted"
    /\ ~ev.in_flight /\ ev.realign_created
    /\ entity.sensor_realign_task # None
    /\ realigns[Get(entity.sensor_realign_task)].pc = "created"

\* A rejected notification has scheduled none, with no task in flight.
C37_WitnessRejected ==
    /\ ev.kind = "notify" /\ ev.outcome = "rejected"
    /\ ~ev.in_flight /\ ~ev.realign_created
    /\ entity.sensor_realign_task = None
    /\ \A id \in TaskIds : realigns[id].pc = "idle"

\* A self-echo has scheduled none, as a task was in flight.
C37_WitnessEchoInFlight ==
    /\ ev.kind = "notify" /\ ev.outcome = "echo"
    /\ ev.in_flight /\ ~ev.realign_created
    /\ entity.sensor_realign_task # None

\* A notification that changed nothing has scheduled a realignment.
C37_WitnessNoChange ==
    /\ ev.kind = "notify" /\ ev.outcome = "no_change"
    /\ ~ev.in_flight /\ ev.realign_created

-----------------------------------------------------------------------------
(* C38: one cooldown retry timer *)

\* The realignment task id has passed the cooldown check on this step.
ProceedsPastCooldown(id) ==
    /\ realigns[id].pc = "created"
    /\ ev'.kind = "realign" /\ ev'.task = id
    /\ ev'.outcome \in {"waiting", "computed", "nothing_to_send"}

\* C38 (Single cooldown timer): hass never holds more than one retry timer
\* of the proxy, and the handle the proxy keeps is that of the timer held, or
\* none when none is held; a realignment that passes the cooldown check
\* leaves no timer, and neither does the teardown.
C38_SingleCooldownTimer ==
    /\ [](/\ Len(entity.call_later) <= 1
          /\ entity.call_later =
                IF entity.cooldown_timer_unsub = None THEN <<>>
                ELSE <<Get(entity.cooldown_timer_unsub)>>)
    /\ [][ /\ \A id \in TaskIds : ProceedsPastCooldown(id) => entity'.call_later = <<>>
           /\ ev'.kind = "teardown" => entity'.call_later = <<>> ]_vars

\* A realignment was blocked by the cooldown while a timer was outstanding:
\* there is still one timer.
C38_Witness ==
    /\ ev.kind = "realign" /\ ev.outcome = "cooldown" /\ ev.had_timer
    /\ Len(entity.call_later) = 1
    /\ entity.call_later[1] > now

\* A realignment has passed the cooldown check with a timer outstanding.
C38_WitnessProceeds ==
    /\ ev.kind = "realign" /\ ev.outcome \in {"waiting", "computed", "nothing_to_send"}
    /\ ev.had_timer
    /\ entity.call_later = <<>>
    /\ entity.cooldown_timer_unsub = None

\* A timer was set with none outstanding, for a write later than the first
\* cooldown: it is the only one.
C38_WitnessFired ==
    /\ ev.kind = "realign" /\ ev.outcome = "cooldown" /\ ~ev.had_timer
    /\ Len(entity.call_later) = 1
    /\ \E id \in TaskIds : realigns[id].pc = "idle"
    /\ entity.call_later[1] >= StartTime + 2 * entity.cooldown_period

\* The proxy was removed with a timer outstanding.
C38_WitnessTeardown ==
    /\ ev.kind = "teardown" /\ ev.timer # None
    /\ entity.call_later = <<>>
    /\ entity.cooldown_timer_unsub = None

-----------------------------------------------------------------------------
(* C39: a device target one step away from the baseline *)

\* The notification of this step reports a target `by` hundredths away from
\* the temperature baseline, which no pending write matches; the temperature
\* is an ignore-device setting.
TargetMovedBy(by) ==
    /\ ev'.kind = "notify"
    /\ "temperature" \in entity.it_settings
    /\ hass_state' # None /\ Available(Get(hass_state'))
    /\ GetSsotBaseline(entity, "temperature") # None
    /\ ReadFrom("temperature", Get(hass_state')) # None
    /\ Abs(Get(ReadFrom("temperature", Get(hass_state')))
             - Get(GetSsotBaseline(entity, "temperature"))) = by
    /\ FindPendingMatchIndex(entity, "temperature",
                             ReadFrom("temperature", Get(hass_state')), now) = 0

RejectedForTemperature ==
    /\ "temperature" \in ev'.changes
    /\ ev'.outcome = "rejected"
    /\ CorrectionCreated

\* C39 (Sub-step external change under IT): a notification whose target is
\* one device step of 0.5 degrees away from the temperature baseline, and
\* matches no pending write, is classified as a change and rejected, and a
\* correction is started.
C39_SubStepChangeRejected == [][TargetMovedBy(50) => RejectedForTemperature]_vars

\* The same for a target two steps, a whole degree, away: this holds.
C39_WholeDegreeChangeRejected == [][TargetMovedBy(100) => RejectedForTemperature]_vars

\* The device went from 22.0 to 22.5, one step of 0.5, with the temperature
\* ignored: the notification was found to change nothing, the baseline is
\* still 22.0 and no correction was started.
C39_SubStepChangeUnnoticed ==
    /\ ev.kind = "notify" /\ ev.outcome = "no_change"
    /\ "temperature" \in entity.it_settings
    /\ entity.target_temp_step = Some(50)
    /\ ReadFrom("temperature", Get(hass_state)) = Some(2250)
    /\ GetSsotBaseline(entity, "temperature") = Some(2200)
    /\ entity.pending_setting_requests["temperature"] = <<>>
    /\ \A k \in CorrectionIds : corrections[k].pc = "idle"

\* The device went to 23.0: rejected, and the correction has sent 22.0.
C39_WitnessWholeDegreeCorrected ==
    /\ ev.kind = "correction" /\ ev.outcome = "sent"
    /\ "temperature" \in entity.it_settings
    /\ ev.payload = { <<"temperature", 2200>> }
    /\ ReadFrom("temperature", Get(hass_state)) = Some(2300)

-----------------------------------------------------------------------------
(* C40: the display temperature of a translation *)

\* A set_temperature call has run its translation on this step.
Translates(c) == ev'.kind = "set_temperature" /\ ev'.caller = c /\ callers[c].pc = "idle"

\* The substitute sensor is the active one, and this is its reading.
SubstituteReading(e) ==
    IF e.selected_sensor_name # PhysicalSensorName
    THEN CoerceTemperature(e.sensor_state) ELSE None

\* The translation failed: nothing was sent and nothing has changed.
TranslationFails(c) ==
    /\ ev'.outcome = "not_computed"
    /\ entity' = entity /\ callers' = callers

\* What the translation of this step took for the display temperature.
DisplayUsed(c) == callers'[c].display_current

\* The translation fails exactly when a reading it needs is missing.
FailsWithout(c, display) ==
    IF display = None \/ GetRealCurrentTemperature(entity) = None
    THEN TranslationFails(c)
    ELSE ev'.outcome = "computed" /\ DisplayUsed(c) = display

\* C40 (Display temperature selection): the translation of set_temperature
\* takes the active substitute sensor's reading for the display temperature
\* whenever that sensor has a reading, and the device's current temperature
\* only when it has none; without a current temperature of the device the
\* translation fails, nothing is written and the proxy's state is unchanged.
C40_DisplayTemperature ==
    [][ \A c \in CallerIds :
          Translates(c)
            => FailsWithout(c, IF SubstituteReading(entity) # None
                               THEN SubstituteReading(entity)
                               ELSE GetRealCurrentTemperature(entity)) ]_vars

\* The same for every reading but 0.0, which is taken for a missing one.
C40_DisplayTemperatureUnlessZero ==
    [][ \A c \in CallerIds :
          Translates(c)
            => FailsWithout(c, IF SubstituteReading(entity) \notin {None, Some(0)}
                               THEN SubstituteReading(entity)
                               ELSE GetRealCurrentTemperature(entity)) ]_vars

\* The sensor reads 0.0 and the translation has taken the device's 21.0 for
\* the display temperature: 25.5 was translated to 25.5.
C40_DeviceCurrentForZeroReading ==
    /\ ev.kind = "set_temperature" /\ ev.outcome = "computed"
    /\ entity.selected_sensor_name # PhysicalSensorName
    /\ entity.sensor_state = Some(0)
    /\ callers[ev.caller].display_current = Some(2100)
    /\ callers[ev.caller].real_current = Some(2100)
    /\ callers[ev.caller].real_target = Some(2550)

\* The sensor reads 22.5 and the translation has used it.
C40_WitnessSensorReading ==
    /\ ev.kind = "set_temperature" /\ ev.outcome = "computed"
    /\ entity.sensor_state = Some(2250)
    /\ callers[ev.caller].display_current = Some(2250)
    /\ callers[ev.caller].real_current = Some(2100)

\* The sensor has no reading and the translation has used the device's.
C40_WitnessNoReading ==
    /\ ev.kind = "set_temperature" /\ ev.outcome = "computed"
    /\ entity.sensor_state = None
    /\ entity.selected_sensor_name # PhysicalSensorName
    /\ callers[ev.caller].display_current = Some(2100)

\* The device reports no current temperature: the translation has failed.
C40_WitnessNoDeviceCurrent ==
    /\ ev.kind = "set_temperature" /\ ev.outcome = "not_computed"
    /\ entity.sensor_state = Some(2250)
    /\ GetRealCurrentTemperature(entity) = None
    /\ entity.command_lock = None
    /\ \A c \in CallerIds : callers[c].pc = "idle"
====
